---- MODULE Spec2Model ----
(***************************************************************************)
(* Model of doomfront's general-purpose LL parser                          *)
(* (src/doomfront/src/parser.rs): the cursor and its fuel, the event log   *)
(* with its marks, the error list, and finish(), which replays the event   *)
(* log against the lexeme stream into a rowan green tree.                  *)
(*                                                                         *)
(* Indices are the code's: marks and the cursor are 0-based, a span is     *)
(* start..end (end exclusive).  TLA+ sequences are 1-based, so event i of  *)
(* the code is events[i + 1] and lexeme i is tokens[i + 1].                *)
(***************************************************************************)
EXTENDS Integers, Sequences, FiniteSets, TLC

VARIABLES
    source,     \* Parser::source, the text as a sequence of characters
    tokens,     \* Parser::tokens, the lexemes [kind, start, end]
    pos,        \* Parser::pos
    fuel,       \* Parser::fuel
    events,     \* Parser::events
    errors,     \* Parser::errors
    status,     \* "run": the parser is alive; "done": finish() returned;
                \* "panic": some call panicked
    panicMsg,   \* which panic it was ("" while none)
    tree,       \* finish().0 once status = "done" (NoTree before)
    outErrors,  \* finish().1 once status = "done"
    openMarks,  \* the OpenMarks the driver holds and has not yet closed or cancelled
    closeMarks, \* the CloseMarks the driver holds (CloseMark is Copy)
    opens,      \* number of open()/open_before() calls so far
    closes,     \* number of close() calls so far
    cancels,    \* number of cancel() calls so far
    looks,      \* lookahead calls since the last advance (driver's count)
    plan,       \* SpecStall: lookahead calls the driver makes before it advances
    pc,         \* SpecRecover: the recovery loop's position
    calls,      \* SpecCalls, SpecScenario: combinator calls made so far
    last        \* the last call: its name, arguments, result and pre-state

vars == << source, tokens, pos, fuel, events, errors, status, panicMsg, tree,
           outErrors, openMarks, closeMarks, opens, closes, cancels, looks,
           plan, pc, calls, last >>

(***************************************************************************)
(* Program constants and bounds                                            *)
(***************************************************************************)

\* Parser::new: fuel: Cell::new(256); advance/advance_n: self.fuel.set(256)
FUEL == 256

\* Bounds of the driver (the grammar) that the model explores.
MaxOpens == 3       \* open() + open_before() calls in one run
MaxCloses == 2      \* close() calls in one run
MaxCancels == 1     \* cancel() calls in one run
MaxAdvN == 2        \* advance_n is tried with 0..MaxAdvN
MaxEvents == 5      \* Spec: no call is made once the log is this long
MaxOver == 1        \* SpecStall: a run of lookahead calls is at most FUEL + MaxOver long
MaxNth == 1         \* nth(k) is tried with k in 0..MaxNth
MaxErrors == 4      \* SpecRecover: no error is raised once the list is this long
MaxCalls == 2       \* SpecCalls: combinator calls in one run
MaxPeek == 1        \* SpecScenario: at() calls before one expect()

(***************************************************************************)
(* The grammar's side of LangExt: tokens, node kinds, kind_to_raw          *)
(***************************************************************************)

\* L::Token values of the toy grammar; L::EOF is "EOF".
Tokens == {"Ident", "Eq", "IntLit", "Semi", "Ws", "EOF"}
EOF == "EOF"

\* L::Kind values in declaration order; L::ERR_NODE is "Error".
Kinds == << "Error", "Root", "Assign", "Ident", "Eq", "IntLit", "Semi", "Ws", "Lit" >>
ERR_NODE == "Error"

\* L::kind_to_raw: the kind's discriminant as a rowan::SyntaxKind (u16).
KindToRaw(k) == (CHOOSE i \in 1..Len(Kinds) : Kinds[i] = k) - 1

\* The node kinds the driver closes nodes with.
NodeKinds == {"Root", "Assign"}

\* The leaf kind a toy grammar gives a token.
LeafKind(tok) == tok

(***************************************************************************)
(* Lexemes and inputs                                                      *)
(***************************************************************************)

\* struct Lexeme { kind, span }
Lexeme(k, s, e) == [kind |-> k, start |-> s, end |-> e]

\* What Parser::new's lexer pass leaves in `source` and `tokens` for a few
\* texts.  Input 4 is lexed by a lexer that skips blanks (a gap in the spans);
\* input 5 is the same text with the blank kept as a lexeme.
Inputs == <<
    [src |-> << >>, toks |-> << >>],
    [src |-> << "x" >>, toks |-> << Lexeme("Ident", 0, 1) >>],
    [src |-> << "x", "=", ";" >>,
     toks |-> << Lexeme("Ident", 0, 1), Lexeme("Eq", 1, 2), Lexeme("Semi", 2, 3) >>],
    [src |-> << "a", "b", " ", "c" >>,
     toks |-> << Lexeme("Ident", 0, 2), Lexeme("Ident", 3, 4) >>],
    [src |-> << "a", "b", " ", "c" >>,
     toks |-> << Lexeme("Ident", 0, 2), Lexeme("Ws", 2, 3), Lexeme("Ident", 3, 4) >>]
>>

\* The text "x=1;" of the toy grammar Ident '=' IntLit ';', lexed.
InputA ==
    [src |-> << "x", "=", "1", ";" >>,
     toks |-> << Lexeme("Ident", 0, 1), Lexeme("Eq", 1, 2),
                 Lexeme("IntLit", 2, 3), Lexeme("Semi", 3, 4) >>]

\* &self.source[start..end]; Rust panics unless start <= end <= len.
SliceOk(src, s, e) == s <= e /\ e <= Len(src)
Slice(src, s, e) == SubSeq(src, s + 1, e)

(***************************************************************************)
(* Events                                                                  *)
(***************************************************************************)

\* enum Event { Open(SyntaxKind), Close, Advance(SyntaxKind), AdvanceN(SyntaxKind, usize) }
\* `g` is a ghost no code reads: for an Open the number of the open() /
\* open_before() call that made it, for an Advance/AdvanceN the cursor at the
\* time of the call.
EvOpen(raw, g) == [type |-> "Open", kind |-> raw, n |-> 0, g |-> g]
EvClose == [type |-> "Close", kind |-> 0, n |-> 0, g |-> 0]
EvAdvance(raw, g) == [type |-> "Advance", kind |-> raw, n |-> 1, g |-> g]
EvAdvanceN(raw, n, g) == [type |-> "AdvanceN", kind |-> raw, n |-> n, g |-> g]

\* Vec::insert(i, x) and Vec::remove(i), 0-based; both panic out of range.
VecInsert(v, i, x) == SubSeq(v, 1, i) \o << x >> \o SubSeq(v, i + 1, Len(v))
VecRemove(v, i) == SubSeq(v, 1, i) \o SubSeq(v, i + 2, Len(v))

(***************************************************************************)
(* The parser as a value: the methods are operators from a parser value to *)
(* the parser value after the call.  `panic` is "" until a call panics,    *)
(* after which nothing more happens to the value; `ret` is the call's      *)
(* return value.                                                           *)
(***************************************************************************)

Parser == [source |-> source, tokens |-> tokens, pos |-> pos, fuel |-> fuel,
           events |-> events, errors |-> errors, panic |-> "", ret |-> 0,
           rtok |-> "", rbool |-> FALSE, opens |-> opens]

PanicWith(p, msg) == [p EXCEPT !.panic = msg]

\* pub fn eof(&self) -> bool
eof(p) == p.pos = Len(p.tokens)

\* pub fn open(&mut self) -> OpenMark
open(p) ==
    IF p.panic # "" THEN p
    ELSE [p EXCEPT !.ret = Len(p.events),
                   !.events = Append(@, EvOpen(KindToRaw(ERR_NODE), p.opens + 1)),
                   !.opens = @ + 1]

\* pub fn close(&mut self, mark: OpenMark, syn: L::Kind) -> CloseMark
close(p, mark, syn) ==
    IF p.panic # "" THEN p
    ELSE IF mark >= Len(p.events) THEN PanicWith(p, "index out of bounds")
    ELSE [p EXCEPT !.ret = mark,
                   !.events = Append([@ EXCEPT ![mark + 1] =
                       EvOpen(KindToRaw(syn), IF @.type = "Open" THEN @.g ELSE 0)],
                       EvClose)]

\* open_before() that pushes its Open at the end of the log.
open_before_appends(p, mark) ==
    IF p.panic # "" THEN p
    ELSE IF mark > Len(p.events) THEN PanicWith(p, "insertion index out of bounds")
    ELSE [p EXCEPT !.ret = mark,
                   !.events = Append(@, EvOpen(KindToRaw(ERR_NODE), p.opens + 1)),
                   !.opens = @ + 1]

\* open_before() that inserts behind the Open at the mark.
open_before_behind(p, mark) ==
    IF p.panic # "" THEN p
    ELSE IF mark + 1 > Len(p.events) THEN PanicWith(p, "insertion index out of bounds")
    ELSE [p EXCEPT !.ret = mark,
                   !.events = VecInsert(@, mark + 1,
                                       EvOpen(KindToRaw(ERR_NODE), p.opens + 1)),
                   !.opens = @ + 1]

\* pub fn open_before(&mut self, mark: CloseMark) -> OpenMark
open_before(p, mark) ==
    IF p.panic # "" THEN p
    ELSE IF mark > Len(p.events) THEN PanicWith(p, "insertion index out of bounds")
    ELSE [p EXCEPT !.ret = mark,
                   !.events = VecInsert(@, mark, EvOpen(KindToRaw(ERR_NODE), p.opens + 1)),
                   !.opens = @ + 1]

\* pub fn cancel(&mut self, mark: OpenMark)
cancel(p, mark) ==
    IF p.panic # "" THEN p
    ELSE IF mark >= Len(p.events) THEN PanicWith(p, "removal index out of bounds")
    ELSE [p EXCEPT !.events = VecRemove(@, mark)]

\* advance() that forgets to refill the fuel.
advance_keeps_fuel(p, syn) ==
    IF p.panic # "" THEN p
    ELSE IF p.pos = Len(p.tokens) THEN PanicWith(p, "assertion failed: !self.eof()")
    ELSE [p EXCEPT !.events = Append(@, EvAdvance(KindToRaw(syn), p.pos)),
                   !.pos = @ + 1]

\* pub fn advance(&mut self, syn: L::Kind)
advance(p, syn) ==
    IF p.panic # "" THEN p
    ELSE IF eof(p) THEN PanicWith(p, "assertion failed: !self.eof()")
    ELSE [p EXCEPT !.fuel = FUEL,
                   !.events = Append(@, EvAdvance(KindToRaw(syn), p.pos)),
                   !.pos = @ + 1]

\* advance_n() that does not reset the fuel.
advance_n_keeps_fuel(p, syn, n) ==
    IF p.panic # "" THEN p
    ELSE IF n < 1
         THEN PanicWith(p, IF p.pos >= Len(p.tokens) THEN "index out of bounds"
                           ELSE "advance_n was passed 0")
    ELSE [p EXCEPT !.events = Append(@, EvAdvanceN(KindToRaw(syn), n, p.pos)),
                   !.pos = @ + n]

\* advance_n() without its assertion on the count.
advance_n_unchecked(p, syn, n) ==
    IF p.panic # "" THEN p
    ELSE [p EXCEPT !.fuel = FUEL,
                   !.events = Append(@, EvAdvanceN(KindToRaw(syn), n, p.pos)),
                   !.pos = @ + n]

\* pub fn advance_n(&mut self, syn: L::Kind, tokens: usize)
\* The failed assertion formats current_span() and current_slice(), which
\* index tokens[pos]: past the end that indexing is the panic.
advance_n(p, syn, n) ==
    IF p.panic # "" THEN p
    ELSE IF n < 1
         THEN PanicWith(p, IF p.pos >= Len(p.tokens) THEN "index out of bounds"
                           ELSE "advance_n was passed 0")
    ELSE [p EXCEPT !.fuel = FUEL,
                   !.events = Append(@, EvAdvanceN(KindToRaw(syn), n, p.pos)),
                   !.pos = @ + n]

\* nth() without the zero check: the decrement goes below zero.
nth_underflows(p, lookahead) ==
    IF p.panic # "" THEN p
    ELSE [p EXCEPT !.fuel = @ - 1,
                   !.rtok = IF p.pos + lookahead < Len(p.tokens)
                            THEN p.tokens[p.pos + lookahead + 1].kind
                            ELSE EOF]

\* nth() that looks at the current lexeme whatever the lookahead.
nth_current(p, lookahead) ==
    IF p.panic # "" THEN p
    ELSE IF p.fuel = 0
         THEN PanicWith(p, IF p.pos >= Len(p.tokens) THEN "index out of bounds"
                           ELSE "parser is not advancing")
    ELSE [p EXCEPT !.fuel = @ - 1,
                   !.rtok = IF p.pos < Len(p.tokens)
                            THEN p.tokens[p.pos + 1].kind
                            ELSE EOF]

\* pub fn nth(&self, lookahead: usize) -> L::Token
\* The stall panic formats tokens[pos].span: at or past the end of the stream
\* that indexing panics before the diagnostic is built.
nth(p, lookahead) ==
    IF p.panic # "" THEN p
    ELSE IF p.fuel = 0
         THEN PanicWith(p, IF p.pos >= Len(p.tokens) THEN "index out of bounds"
                           ELSE "parser is not advancing")
    ELSE [p EXCEPT !.fuel = @ - 1,
                   !.rtok = IF p.pos + lookahead < Len(p.tokens)
                            THEN p.tokens[p.pos + lookahead + 1].kind
                            ELSE EOF]

\* pub fn at(&self, token: L::Token) -> bool
at(p, token) ==
    LET q == nth(p, 0) IN
    IF q.panic # "" THEN q ELSE [q EXCEPT !.rbool = (q.rtok = token)]

\* pub fn at_any(&self, choices: &'static [L::Token]) -> bool
at_any(p, choices) ==
    LET q == nth(p, 0) IN
    IF q.panic # "" THEN q
    ELSE [q EXCEPT !.rbool = (\E i \in 1..Len(choices) : choices[i] = q.rtok)]

\* The predicates (fn(L::Token) -> bool) the toy grammar passes to at_if,
\* eat_if and expect_if.  not_semi also accepts L::EOF.
Predicates == {"is_trivia", "is_operand", "not_semi"}
Holds(pred, tok) ==
    IF pred = "is_trivia" THEN tok = "Ws"
    ELSE IF pred = "is_operand" THEN tok \in {"Ident", "IntLit"}
    ELSE tok # "Semi"

\* pub fn at_if(&self, predicate: fn(L::Token) -> bool) -> bool
at_if(p, pred) ==
    LET q == nth(p, 0) IN
    IF q.panic # "" THEN q ELSE [q EXCEPT !.rbool = Holds(pred, q.rtok)]

\* pub fn eat(&mut self, token: L::Token, syn: L::Kind) -> bool
eat(p, token, syn) ==
    LET q == at(p, token) IN
    IF q.panic # "" THEN q
    ELSE IF q.rbool THEN [advance(q, syn) EXCEPT !.rbool = TRUE]
    ELSE [q EXCEPT !.rbool = FALSE]

\* u8::to_ascii_lowercase on the characters the inputs and keywords use.
AsciiLower(c) ==
    IF c = "A" THEN "a" ELSE IF c = "B" THEN "b" ELSE IF c = "C" THEN "c"
    ELSE IF c = "X" THEN "x" ELSE c

\* str::eq_ignore_ascii_case
eq_ignore_ascii_case(a, b) ==
    /\ Len(a) = Len(b)
    /\ \A i \in 1..Len(a) : AsciiLower(a[i]) = AsciiLower(b[i])

\* at_str_nc with the kind test left out.
at_str_nc_any_kind(p, token, string) ==
    IF p.panic # "" THEN p
    ELSE LET lexeme == IF p.pos < Len(p.tokens) THEN p.tokens[p.pos + 1]
                       ELSE Lexeme(EOF, Len(p.source), Len(p.source))
         IN  IF ~ SliceOk(p.source, lexeme.start, lexeme.end)
             THEN PanicWith(p, "byte index out of range")
             ELSE [p EXCEPT !.rbool =
                      eq_ignore_ascii_case(
                          Slice(p.source, lexeme.start, lexeme.end), string)]

\* pub fn at_str_nc(&self, token: L::Token, string: &'static str) -> bool
\* It reads tokens.get(pos) itself: no nth() call, so no fuel is used.
at_str_nc(p, token, string) ==
    IF p.panic # "" THEN p
    ELSE LET lexeme == IF p.pos < Len(p.tokens) THEN p.tokens[p.pos + 1]
                       ELSE Lexeme(EOF, Len(p.source), Len(p.source))
         IN  IF ~ SliceOk(p.source, lexeme.start, lexeme.end)
             THEN PanicWith(p, "byte index out of range")
             ELSE [p EXCEPT !.rbool =
                      /\ lexeme.kind = token
                      /\ eq_ignore_ascii_case(
                            Slice(p.source, lexeme.start, lexeme.end), string)]

\* eat_any() that looks at the current token once and then picks the first
\* choice naming it: one unit of fuel however many choices there are.
eat_any_one_look(p, choices) ==
    LET q == nth(p, 0) IN
    IF q.panic # "" THEN q
    ELSE IF \E j \in 1..Len(choices) : choices[j].tok = q.rtok
         THEN LET j == CHOOSE j \in 1..Len(choices) :
                          /\ choices[j].tok = q.rtok
                          /\ \A k \in 1..(j - 1) : choices[k].tok # q.rtok
              IN  [advance(q, choices[j].kind) EXCEPT !.rbool = TRUE]
         ELSE [q EXCEPT !.rbool = FALSE]

\* pub fn eat_any(&mut self, choices: &'static [(L::Token, L::Kind)]) -> bool
\* `for choice in choices` from choice i on; every choice tested costs one
\* at() call.
RECURSIVE eat_any_from(_, _, _)
eat_any_from(p, choices, i) ==
    IF p.panic # "" THEN p
    ELSE IF i > Len(choices) THEN [p EXCEPT !.rbool = FALSE]
    ELSE LET q == at(p, choices[i].tok) IN
         IF q.panic # "" THEN q
         ELSE IF q.rbool THEN [advance(q, choices[i].kind) EXCEPT !.rbool = TRUE]
         ELSE eat_any_from(q, choices, i + 1)

eat_any(p, choices) == eat_any_from(p, choices, 1)

\* pub fn eat_str_nc(&mut self, token, string, syn: L::Kind) -> bool
eat_str_nc(p, token, string, syn) ==
    LET q == at_str_nc(p, token, string) IN
    IF q.panic # "" THEN q
    ELSE IF q.rbool THEN [advance(q, syn) EXCEPT !.rbool = TRUE]
    ELSE [q EXCEPT !.rbool = FALSE]

\* pub fn eat_if(&mut self, predicate: fn(L::Token) -> bool, syn: L::Kind) -> bool
eat_if(p, pred, syn) ==
    LET q == at_if(p, pred) IN
    IF q.panic # "" THEN q
    ELSE IF q.rbool THEN [advance(q, syn) EXCEPT !.rbool = TRUE]
    ELSE [q EXCEPT !.rbool = FALSE]

\* .iter().find_map(|t| if predicate(t.kind) { Some(t.kind) } else { None })
\* over tokens[i..] (i 0-based), .unwrap_or(L::EOF)
RECURSIVE FindMapFrom(_, _, _)
FindMapFrom(toks, i, pred) ==
    IF i >= Len(toks) THEN EOF
    ELSE IF Holds(pred, toks[i + 1].kind) THEN toks[i + 1].kind
    ELSE FindMapFrom(toks, i + 1, pred)

\* pub fn next_filtered(&self, predicate: fn(L::Token) -> bool) -> L::Token
\* self.tokens[self.pos..] panics when pos is past the end.
next_filtered(p, pred) ==
    IF p.panic # "" THEN p
    ELSE IF p.pos > Len(p.tokens)
         THEN PanicWith(p, "range start index out of range")
    ELSE [p EXCEPT !.rtok = FindMapFrom(p.tokens, p.pos, pred)]

\* pub fn lookahead_filtered(&self, predicate: fn(L::Token) -> bool) -> L::Token
lookahead_filtered(p, pred) ==
    IF p.panic # "" THEN p
    ELSE IF p.pos >= Len(p.tokens) THEN [p EXCEPT !.rtok = EOF]
    ELSE [p EXCEPT !.rtok = FindMapFrom(p.tokens, p.pos + 1, pred)]

\* raise() that puts the new Error in front of the list.
raise_in_front(p, expected) ==
    IF p.panic # "" THEN p
    ELSE [p EXCEPT !.errors = <<
            [expected |-> expected,
             found |-> IF p.pos < Len(p.tokens) THEN p.tokens[p.pos + 1]
                       ELSE Lexeme(EOF, Len(p.source), Len(p.source))] >> \o @]

\* raise() that also refills the fuel.
raise_refuels(p, expected) ==
    IF p.panic # "" THEN p
    ELSE [p EXCEPT !.fuel = FUEL,
                   !.errors = Append(@,
            [expected |-> expected,
             found |-> IF p.pos < Len(p.tokens) THEN p.tokens[p.pos + 1]
                       ELSE Lexeme(EOF, Len(p.source), Len(p.source))])]

\* raise() that always reports the EOF lexeme as found.
raise_at_end(p, expected) ==
    IF p.panic # "" THEN p
    ELSE [p EXCEPT !.errors = Append(@,
            [expected |-> expected,
             found |-> Lexeme(EOF, Len(p.source), Len(p.source))])]

\* struct Error { expected, found }
\* fn raise(&mut self, expected: &'static [&'static str])
raise(p, expected) ==
    IF p.panic # "" THEN p
    ELSE [p EXCEPT !.errors = Append(@,
            [expected |-> expected,
             found |-> IF p.pos < Len(p.tokens) THEN p.tokens[p.pos + 1]
                       ELSE Lexeme(EOF, Len(p.source), Len(p.source))])]

\* expect() that steps over the lexeme it did not expect.
expect_skips(p, token, syn, expected) ==
    LET q == eat(p, token, syn) IN
    IF q.panic # "" \/ q.rbool THEN q
    ELSE [raise(q, expected) EXCEPT !.pos = @ + 1]

\* expect() that raises even when eat() consumed the token.
expect_raises_anyway(p, token, syn, expected) ==
    LET q == eat(p, token, syn) IN
    IF q.panic # "" THEN q ELSE raise(q, expected)

\* pub fn expect(&mut self, token, syn, expected)
\* expect* return (); rbool keeps what the eat* inside returned.
expect(p, token, syn, expected) ==
    LET q == eat(p, token, syn) IN
    IF q.panic # "" \/ q.rbool THEN q ELSE raise(q, expected)

\* pub fn expect_str_nc(&mut self, token, string, syn, expected)
expect_str_nc(p, token, string, syn, expected) ==
    LET q == eat_str_nc(p, token, string, syn) IN
    IF q.panic # "" \/ q.rbool THEN q ELSE raise(q, expected)

\* pub fn expect_if(&mut self, predicate, syn, expected)
expect_if(p, pred, syn, expected) ==
    LET q == eat_if(p, pred, syn) IN
    IF q.panic # "" \/ q.rbool THEN q ELSE raise(q, expected)

\* expect_any()'s loop with the raise inside it: one Error per failed choice.
RECURSIVE expect_any_each_from(_, _, _, _)
expect_any_each_from(p, choices, expected, i) ==
    IF p.panic # "" \/ i > Len(choices) THEN p
    ELSE LET q == eat(p, choices[i].tok, choices[i].kind) IN
         IF q.panic # "" \/ q.rbool THEN q
         ELSE expect_any_each_from(raise(q, expected), choices, expected, i + 1)

\* pub fn expect_any(&mut self, choices: &'static [(L::Token, L::Kind)], expected)
\* `for choice in choices { if self.eat(choice.0, choice.1) { return; } }`
RECURSIVE expect_any_from(_, _, _, _)
expect_any_from(p, choices, expected, i) ==
    IF p.panic # "" THEN p
    ELSE IF i > Len(choices) THEN raise(p, expected)
    ELSE LET q == eat(p, choices[i].tok, choices[i].kind) IN
         IF q.panic # "" \/ q.rbool THEN q
         ELSE expect_any_from(q, choices, expected, i + 1)

expect_any(p, choices, expected) == expect_any_from(p, choices, expected, 1)

\* pub fn expect_any_str_nc(&mut self,
\*     choices: &'static [(L::Token, &'static str, L::Kind)], expected)
RECURSIVE expect_any_str_nc_from(_, _, _, _)
expect_any_str_nc_from(p, choices, expected, i) ==
    IF p.panic # "" THEN p
    ELSE IF i > Len(choices) THEN raise(p, expected)
    ELSE LET q == eat_str_nc(p, choices[i].tok, choices[i].str, choices[i].kind) IN
         IF q.panic # "" \/ q.rbool THEN q
         ELSE expect_any_str_nc_from(q, choices, expected, i + 1)

expect_any_str_nc(p, choices, expected) ==
    expect_any_str_nc_from(p, choices, expected, 1)

\* advance_with_error() that raises only after it has advanced.
advance_with_error_late(p, syn, expected) ==
    LET p1 == open(p)
        p2 == advance(p1, syn)
        p3 == raise(p2, expected)
    IN  close(p3, p1.ret, ERR_NODE)

\* advance_with_error() that wraps nothing: it does not advance.
advance_with_error_stuck(p, syn, expected) ==
    LET p1 == open(p)
        p2 == raise(p1, expected)
    IN  close(p2, p1.ret, ERR_NODE)

\* pub fn advance_with_error(&mut self, syn: L::Kind, expected: ...)
advance_with_error(p, syn, expected) ==
    LET p1 == open(p)
        p2 == raise(p1, expected)
        p3 == advance(p2, syn)
    IN  close(p3, p1.ret, ERR_NODE)

\* advance_err_and_close() without the `if !self.eof()`.
advance_err_and_close_unguarded(p, checkpoint, token, err, expected) ==
    LET p1 == raise(p, expected)
        p2 == advance(p1, token)
    IN  close(p2, checkpoint, err)

\* pub fn advance_err_and_close(&mut self, checkpoint: OpenMark,
\*     token: L::Kind, err: L::Kind, expected) -> CloseMark
advance_err_and_close(p, checkpoint, token, err, expected) ==
    LET p1 == raise(p, expected)
        p2 == IF p1.panic = "" /\ ~ eof(p1) THEN advance(p1, token) ELSE p1
    IN  close(p2, checkpoint, err)

(***************************************************************************)
(* rowan::GreenNodeBuilder, as finish() uses it (rowan is a crate the      *)
(* parser depends on; parser.rs holds only the calls).  The builder keeps  *)
(* two vectors: `parents`, one (kind, first_child) pair per started and    *)
(* not yet finished node, and `children`, the finished elements not        *)
(* yet been put into a node.  An element is a token (leaf) or a node.  The *)
(* fields lo, cnt, evn and evg of a leaf are ghosts: the index of the      *)
(* first lexeme pulled for it, how many were pulled, and the n and g of    *)
(* the event it replays.                                                   *)
(***************************************************************************)

Leaf(raw, text, lo, cnt, evn, evg) ==
    [leaf |-> TRUE, kind |-> raw, text |-> text, kids |-> << >>,
     lo |-> lo, cnt |-> cnt, evn |-> evn, evg |-> evg]
Node(raw, kids) ==
    [leaf |-> FALSE, kind |-> raw, text |-> << >>, kids |-> kids,
     lo |-> 0, cnt |-> 0, evn |-> 0, evg |-> 0]
NoTree == Node(0, << >>)

\* GreenNodeBuilder::new()
BuilderNew == [parents |-> << >>, children |-> << >>, panic |-> ""]

\* builder.start_node(syn): parents.push((kind, children.len()))
start_node(b, raw) ==
    [b EXCEPT !.parents = Append(@, [kind |-> raw, first |-> Len(b.children)])]

\* builder.finish_node(): (kind, first) = parents.pop().unwrap(); the children
\* from `first` on become the new node, which is pushed in their place.
finish_node(b) ==
    IF Len(b.parents) = 0
    THEN [b EXCEPT !.panic = "called Option::unwrap() on a None value"]
    ELSE LET top == b.parents[Len(b.parents)] IN
         [b EXCEPT !.parents = SubSeq(@, 1, Len(@) - 1),
                   !.children = Append(SubSeq(@, 1, top.first),
                                       Node(top.kind, SubSeq(@, top.first + 1, Len(@))))]

\* builder.token(syn, text): children.push(token)
token(b, leaf) == [b EXCEPT !.children = Append(@, leaf)]

\* builder.finish() without the check that the one child is a node.
BuilderFinishAnyChild(b) == Len(b.children) = 1

\* builder.finish(): assert_eq!(children.len(), 1), and the one child must be
\* a node.  `parents` is not looked at.
BuilderFinishOk(b) == Len(b.children) = 1 /\ ~ b.children[1].leaf

(***************************************************************************)
(* finish(): the replay of the event log                                   *)
(***************************************************************************)

\* The lexemes one event pulls from the iterator `tokens` with next():
\* Advance and AdvanceN(_, 1) pull one; the AdvanceN(_, n) arm pulls one for
\* `start`, one per turn of `for _ in 0..(n - 1)` and one for `end`.
Pulled(ev) ==
    IF ev.type = "Advance" THEN 1
    ELSE IF ev.n = 1 THEN 1
    ELSE 1 + (ev.n - 1) + 1

\* One event of the loop `for event in self.events`; tk is the number of
\* lexemes the iterator has given out so far.
ReplayEvent(p, ev, tk, b) ==
    IF ev.type = "Open" THEN [tk |-> tk, b |-> start_node(b, ev.kind)]
    ELSE IF ev.type = "Close" THEN [tk |-> tk, b |-> finish_node(b)]
    ELSE LET cnt == Pulled(ev) IN
         IF tk + cnt > Len(p.tokens)
         THEN [tk |-> Len(p.tokens),
               b |-> [b EXCEPT !.panic = "called Option::unwrap() on a None value"]]
         ELSE LET s == p.tokens[tk + 1].start
                  e == p.tokens[tk + cnt].end
              IN  IF ~ SliceOk(p.source, s, e)
                  THEN [tk |-> tk + cnt, b |-> [b EXCEPT !.panic = "slice index"]]
                  ELSE [tk |-> tk + cnt,
                        b |-> token(b, Leaf(ev.kind, Slice(p.source, s, e),
                                            tk, cnt, ev.n, ev.g))]

RECURSIVE ReplayFrom(_, _, _, _)
ReplayFrom(p, i, tk, b) ==
    IF i > Len(p.events) \/ b.panic # "" THEN [tk |-> tk, b |-> b]
    ELSE LET r == ReplayEvent(p, p.events[i], tk, b) IN ReplayFrom(p, i + 1, r.tk, r.b)

\* pub fn finish(self) -> (GreenNode, Vec<Error<L>>)
\* The result: panic ("" when it returns), tree and errors.
finish(p) ==
    LET r == ReplayFrom(p, 1, 0, BuilderNew) IN
    IF r.b.panic # "" THEN [panic |-> r.b.panic, tree |-> NoTree, errors |-> << >>]
    ELSE IF r.tk # Len(p.tokens)
         THEN [panic |-> "not all tokens were consumed", tree |-> NoTree, errors |-> << >>]
    ELSE IF ~ BuilderFinishOk(r.b)
         THEN [panic |-> "GreenNodeBuilder::finish", tree |-> NoTree, errors |-> << >>]
    ELSE [panic |-> "", tree |-> r.b.children[1], errors |-> p.errors]

(***************************************************************************)
(* The driver: a grammar calling the parser                                *)
(***************************************************************************)

\* The record of a call: its name and arguments, the parser before it
\* (pre), and what it returned.  For a close() that directly follows the
\* open_before() whose mark it closes, wrap is TRUE and wrapMark/wrapPre are
\* that open_before()'s CloseMark and the log before it.  args holds the
\* arguments of a combinator call (token, string, predicate, choices,
\* expected) as a record.
Call(op, mark, n, kind, tok, q) ==
    [op |-> op, mark |-> mark, n |-> n, kind |-> kind, tok |-> tok,
     pre |-> [pos |-> pos, fuel |-> fuel, events |-> events, errors |-> errors],
     ret |-> q.ret, rtok |-> q.rtok, rbool |-> q.rbool,
     wrap |-> FALSE, wrapMark |-> 0, wrapPre |-> << >>, args |-> << >>]

NoCall ==
    [op |-> "new", mark |-> 0, n |-> 0, kind |-> "", tok |-> "",
     pre |-> [pos |-> 0, fuel |-> FUEL, events |-> << >>, errors |-> << >>],
     ret |-> 0, rtok |-> "", rbool |-> FALSE,
     wrap |-> FALSE, wrapMark |-> 0, wrapPre |-> << >>, args |-> << >>]

\* Parser::new(source, extras) over the lexed input inp
NewOver(inp) ==
    /\ source = inp.src
    /\ tokens = inp.toks
    /\ pos = 0
    /\ fuel = FUEL
    /\ events = << >>
    /\ errors = << >>
    /\ status = "run"
    /\ panicMsg = ""
    /\ tree = NoTree
    /\ outErrors = << >>
    /\ openMarks = {}
    /\ closeMarks = {}
    /\ opens = 0
    /\ closes = 0
    /\ cancels = 0
    /\ looks = 0
    /\ calls = 0
    /\ last = NoCall

\* Parser::new(source, extras) over input i
New(i) == NewOver(Inputs[i])

\* The inputs the free driver of Spec runs over.
SpecInputs == {1, 2, 4, 5}

Init ==
    /\ \E i \in SpecInputs : New(i)
    /\ plan = 0
    /\ pc = "loop"

\* The parser after a call that left it as q: a panic ends the run.
Becomes(q) ==
    /\ pos' = q.pos
    /\ fuel' = q.fuel
    /\ events' = q.events
    /\ errors' = q.errors
    /\ opens' = q.opens
    /\ status' = IF q.panic = "" THEN "run" ELSE "panic"
    /\ panicMsg' = q.panic
    /\ UNCHANGED << source, tokens, tree, outErrors >>

\* The leaf kind the toy grammar passes to advance() for the current token.
CurrentLeafKind == IF pos < Len(tokens) THEN LeafKind(tokens[pos + 1].kind) ELSE ERR_NODE

Open ==
    /\ status = "run" /\ opens < MaxOpens /\ Len(events) < MaxEvents
    /\ LET q == open(Parser) IN
        /\ Becomes(q)
        /\ openMarks' = openMarks \cup {[idx |-> q.ret, id |-> q.opens]}
        /\ last' = Call("open", 0, 0, "", "", q)
    /\ UNCHANGED << closeMarks, closes, cancels, calls, looks, plan, pc >>

Close ==
    /\ status = "run" /\ closes < MaxCloses /\ Len(events) < MaxEvents
    /\ \E m \in openMarks, k \in NodeKinds :
        LET q == close(Parser, m.idx, k) IN
        /\ Becomes(q)
        /\ closeMarks' = IF q.panic = "" THEN closeMarks \cup {[idx |-> q.ret, id |-> m.id]}
                         ELSE closeMarks
        /\ openMarks' = openMarks \ {m}
        /\ last' = [Call("close", m.idx, 0, k, "", q) EXCEPT
                       !.wrap = (last.op = "open_before" /\ last.ret = m.idx),
                       !.wrapMark = IF last.op = "open_before" /\ last.ret = m.idx
                                    THEN last.mark ELSE 0,
                       !.wrapPre = IF last.op = "open_before" /\ last.ret = m.idx
                                   THEN last.pre.events ELSE << >>]
    /\ closes' = closes + 1
    /\ UNCHANGED << cancels, calls, looks, plan, pc >>

OpenBefore ==
    /\ status = "run" /\ opens < MaxOpens /\ Len(events) < MaxEvents
    /\ \E m \in closeMarks :
        LET q == open_before(Parser, m.idx) IN
        /\ Becomes(q)
        /\ openMarks' = IF q.panic = "" THEN openMarks \cup {[idx |-> q.ret, id |-> q.opens]}
                        ELSE openMarks
        /\ last' = Call("open_before", m.idx, 0, "", "", q)
    /\ UNCHANGED << closeMarks, closes, cancels, calls, looks, plan, pc >>

Cancel ==
    /\ status = "run" /\ cancels < MaxCancels
    /\ \E m \in openMarks :
        LET q == cancel(Parser, m.idx) IN
        /\ Becomes(q)
        /\ openMarks' = openMarks \ {m}
        /\ last' = [Call("cancel", m.idx, 0, "", "", q) EXCEPT !.args = [id |-> m.id]]
    /\ cancels' = cancels + 1
    /\ UNCHANGED << closeMarks, closes, calls, looks, plan, pc >>

Advance ==
    /\ status = "run" /\ Len(events) < MaxEvents /\ pos <= Len(tokens)
    /\ LET q == advance(Parser, CurrentLeafKind) IN
        /\ Becomes(q)
        /\ last' = Call("advance", 0, 1, CurrentLeafKind, "", q)
    /\ looks' = 0
    /\ UNCHANGED << openMarks, closeMarks, closes, cancels, calls, plan, pc >>

AdvanceN ==
    /\ status = "run" /\ Len(events) < MaxEvents /\ pos <= Len(tokens)
    /\ \E n \in 0..MaxAdvN :
        /\ pos + n <= Len(tokens) + 1
        /\ LET q == advance_n(Parser, "Lit", n) IN
            /\ Becomes(q)
            /\ last' = Call("advance_n", 0, n, "Lit", "", q)
    /\ looks' = 0
    /\ UNCHANGED << openMarks, closeMarks, closes, cancels, calls, plan, pc >>

\* The `expected` lists the toy grammar passes.
ExpectedLists == {<< "integer literal" >>}

Finish ==
    /\ status = "run"
    /\ LET r == finish(Parser) IN
        /\ status' = IF r.panic = "" THEN "done" ELSE "panic"
        /\ panicMsg' = r.panic
        /\ tree' = r.tree
        /\ outErrors' = r.errors
        /\ last' = Call("finish", 0, 0, "", "", Parser)
    /\ UNCHANGED << source, tokens, pos, fuel, events, errors, openMarks,
                    closeMarks, opens, closes, cancels, calls, looks, plan, pc >>

Next ==
    \/ Open
    \/ Close
    \/ OpenBefore
    \/ Cancel
    \/ Advance
    \/ AdvanceN
    \/ Finish

Spec == Init /\ [][Next]_vars

(***************************************************************************)
(* SpecStall: a driver that alternates runs of lookahead calls and         *)
(* advances.  `plan` is the length of the current run: the driver makes    *)
(* `plan` lookahead calls and then advances (unless the input is used up). *)
(***************************************************************************)

PlanChoices == {0, 1, FUEL - 1, FUEL} \cup ((FUEL + 1)..(FUEL + MaxOver))

InitStall ==
    /\ \E i \in 1..Len(Inputs) : New(i)
    /\ plan \in PlanChoices
    /\ pc = "loop"

\* The calls built on nth().
LookOps == {"nth", "at", "at_any", "at_if"}

Looked(q, call) ==
    /\ Becomes(q)
    /\ last' = call
    /\ looks' = looks + 1
    /\ UNCHANGED << openMarks, closeMarks, closes, cancels, calls, plan, pc >>

Nth ==
    /\ status = "run" /\ looks < plan
    /\ \E k \in 0..MaxNth :
        LET q == nth(Parser, k) IN Looked(q, Call("nth", 0, k, "", "", q))

At ==
    /\ status = "run" /\ looks < plan
    /\ LET q == at(Parser, "Ident") IN Looked(q, Call("at", 0, 0, "", "Ident", q))

AtAny ==
    /\ status = "run" /\ looks < plan
    /\ LET q == at_any(Parser, << "Eq", "Semi" >>) IN
        Looked(q, Call("at_any", 0, 0, "", "", q))

AtIf ==
    /\ status = "run" /\ looks < plan
    /\ LET q == at_if(Parser, "is_operand") IN
        Looked(q, Call("at_if", 0, 0, "", "is_operand", q))

StallAdvance ==
    /\ status = "run" /\ looks = plan /\ ~ eof(Parser)
    /\ LET q == advance(Parser, CurrentLeafKind) IN
        /\ Becomes(q)
        /\ last' = Call("advance", 0, 1, CurrentLeafKind, "", q)
    /\ looks' = 0
    /\ plan' \in PlanChoices
    /\ UNCHANGED << openMarks, closeMarks, closes, cancels, calls, pc >>

StallAdvanceN ==
    /\ status = "run" /\ looks = plan /\ pos + 2 <= Len(tokens)
    /\ LET q == advance_n(Parser, "Lit", 2) IN
        /\ Becomes(q)
        /\ last' = Call("advance_n", 0, 2, "Lit", "", q)
    /\ looks' = 0
    /\ plan' \in PlanChoices
    /\ UNCHANGED << openMarks, closeMarks, closes, cancels, calls, pc >>

NextStall ==
    \/ Nth
    \/ At
    \/ AtAny
    \/ AtIf
    \/ StallAdvance
    \/ StallAdvanceN

SpecStall == InitStall /\ [][NextStall]_vars

(***************************************************************************)
(* SpecLook: a driver that repeats one lookahead test (pc names it) up to  *)
(* FUEL + MaxOver times in a row, between advance() and advance_n() calls. *)
(***************************************************************************)

\* The tests a driver can repeat.
TestOps == LookOps \cup {"at_str_nc", "next_filtered", "lookahead_filtered"}

\* The inputs the driver of SpecLook runs over.
LookInputs == {1, 2, 3}

InitLook ==
    /\ \E i \in LookInputs : New(i)
    /\ plan = FUEL + MaxOver
    /\ pc \in TestOps

AtStrNc ==
    /\ status = "run" /\ looks < plan
    /\ LET q == at_str_nc(Parser, "Ident", << "X" >>) IN
        Looked(q, [Call("at_str_nc", 0, 0, "", "Ident", q) EXCEPT
                      !.args = [tok |-> "Ident", str |-> << "X" >>]])

NextFiltered ==
    /\ status = "run" /\ looks < plan
    /\ \E pred \in Predicates :
        LET q == next_filtered(Parser, pred) IN
        Looked(q, [Call("next_filtered", 0, 0, "", "", q) EXCEPT
                      !.args = [pred |-> pred]])

LookaheadFiltered ==
    /\ status = "run" /\ looks < plan
    /\ \E pred \in Predicates :
        LET q == lookahead_filtered(Parser, pred) IN
        Looked(q, [Call("lookahead_filtered", 0, 0, "", "", q) EXCEPT
                      !.args = [pred |-> pred]])

NextLook ==
    \/ pc = "nth" /\ Nth
    \/ pc = "at" /\ At
    \/ pc = "at_any" /\ AtAny
    \/ pc = "at_if" /\ AtIf
    \/ pc = "at_str_nc" /\ AtStrNc
    \/ pc = "next_filtered" /\ NextFiltered
    \/ pc = "lookahead_filtered" /\ LookaheadFiltered
    \/ Advance
    \/ AdvanceN

SpecLook == InitLook /\ [][NextLook]_vars

(***************************************************************************)
(* SpecErrClose: a driver that opens nodes, advances, and ends nodes with  *)
(* advance_err_and_close(); finish() may follow at any time.               *)
(***************************************************************************)

InitErrClose ==
    /\ \E i \in SpecInputs : New(i)
    /\ plan = 0
    /\ pc = "loop"

\* The `err` kinds and `expected` lists the driver passes.
ErrKinds == {ERR_NODE, "Assign"}
ErrExpected == {<< "integer literal" >>, << ";" >>}

AdvanceErrAndClose ==
    /\ status = "run" /\ closes < MaxCloses /\ Len(events) < MaxEvents
    /\ \E m \in openMarks, err \in ErrKinds, ex \in ErrExpected :
        LET q == advance_err_and_close(Parser, m.idx, CurrentLeafKind, err, ex) IN
        /\ Becomes(q)
        /\ closeMarks' = IF q.panic = "" THEN closeMarks \cup {[idx |-> q.ret, id |-> m.id]}
                         ELSE closeMarks
        /\ openMarks' = openMarks \ {m}
        /\ last' = [Call("advance_err_and_close", m.idx, 0, CurrentLeafKind, "", q)
                       EXCEPT !.args = [err |-> err, expected |-> ex]]
    /\ closes' = closes + 1
    /\ looks' = 0
    /\ UNCHANGED << cancels, calls, plan, pc >>

NextErrClose ==
    \/ Open
    \/ AdvanceErrAndClose
    \/ Advance
    \/ AdvanceN
    \/ Finish

SpecErrClose == InitErrClose /\ [][NextErrClose]_vars

(***************************************************************************)
(* SpecCalls: a driver that calls the eat* and expect* combinators and     *)
(* advance_with_error, MaxCalls times at most, between advance() and       *)
(* advance_n() calls.                                                      *)
(***************************************************************************)

InitCalls ==
    /\ \E i \in 1..Len(Inputs) : New(i)
    /\ plan = 0
    /\ pc = "loop"

\* The arguments the driver passes.
EatTokens == {"Ident", "Semi", EOF}
SynFor(tok) == IF tok = EOF THEN ERR_NODE ELSE LeafKind(tok)
ChoiceLists ==
    { << [tok |-> "Eq", kind |-> "Eq"], [tok |-> "Semi", kind |-> "Semi"] >>,
      << [tok |-> "Ident", kind |-> "Ident"], [tok |-> EOF, kind |-> ERR_NODE] >> }
Keywords ==
    { [tok |-> "Ident", str |-> << "A", "B" >>],
      [tok |-> "Ident", str |-> << "X" >>],
      [tok |-> EOF, str |-> << >>] }
StrChoiceLists ==
    { << [tok |-> "Ident", str |-> << "C" >>, kind |-> "Ident"],
         [tok |-> "Ident", str |-> << "a", "B" >>, kind |-> "Ident"] >>,
      << [tok |-> "Semi", str |-> << ";" >>, kind |-> "Semi"] >> }

CallWith(op, kind, q, args) ==
    [Call(op, 0, 0, kind, "", q) EXCEPT !.args = args]

CallStep(q, call) ==
    /\ Becomes(q)
    /\ last' = call
    /\ calls' = calls + 1
    /\ UNCHANGED << openMarks, closeMarks, closes, cancels, looks, plan, pc >>

Eat ==
    /\ status = "run" /\ calls < MaxCalls
    /\ \E tok \in EatTokens :
        LET q == eat(Parser, tok, SynFor(tok)) IN
        CallStep(q, CallWith("eat", SynFor(tok), q, [tok |-> tok]))

EatAny ==
    /\ status = "run" /\ calls < MaxCalls
    /\ \E ch \in ChoiceLists :
        LET q == eat_any(Parser, ch) IN
        CallStep(q, CallWith("eat_any", "", q, [choices |-> ch]))

EatStrNc ==
    /\ status = "run" /\ calls < MaxCalls
    /\ \E kw \in Keywords :
        LET q == eat_str_nc(Parser, kw.tok, kw.str, SynFor(kw.tok)) IN
        CallStep(q, CallWith("eat_str_nc", SynFor(kw.tok), q,
                             [tok |-> kw.tok, str |-> kw.str]))

EatIf ==
    /\ status = "run" /\ calls < MaxCalls
    /\ \E pred \in Predicates :
        LET q == eat_if(Parser, pred, CurrentLeafKind) IN
        CallStep(q, CallWith("eat_if", CurrentLeafKind, q, [pred |-> pred]))

Expect ==
    /\ status = "run" /\ calls < MaxCalls
    /\ \E tok \in EatTokens, ex \in ExpectedLists :
        LET q == expect(Parser, tok, SynFor(tok), ex) IN
        CallStep(q, CallWith("expect", SynFor(tok), q,
                             [tok |-> tok, expected |-> ex]))

ExpectStrNc ==
    /\ status = "run" /\ calls < MaxCalls
    /\ \E kw \in Keywords, ex \in ExpectedLists :
        LET q == expect_str_nc(Parser, kw.tok, kw.str, SynFor(kw.tok), ex) IN
        CallStep(q, CallWith("expect_str_nc", SynFor(kw.tok), q,
                             [tok |-> kw.tok, str |-> kw.str, expected |-> ex]))

ExpectIf ==
    /\ status = "run" /\ calls < MaxCalls
    /\ \E pred \in Predicates, ex \in ExpectedLists :
        LET q == expect_if(Parser, pred, CurrentLeafKind, ex) IN
        CallStep(q, CallWith("expect_if", CurrentLeafKind, q,
                             [pred |-> pred, expected |-> ex]))

ExpectAny ==
    /\ status = "run" /\ calls < MaxCalls
    /\ \E ch \in ChoiceLists, ex \in ExpectedLists :
        LET q == expect_any(Parser, ch, ex) IN
        CallStep(q, CallWith("expect_any", "", q,
                             [choices |-> ch, expected |-> ex]))

ExpectAnyStrNc ==
    /\ status = "run" /\ calls < MaxCalls
    /\ \E ch \in StrChoiceLists, ex \in ExpectedLists :
        LET q == expect_any_str_nc(Parser, ch, ex) IN
        CallStep(q, CallWith("expect_any_str_nc", "", q,
                             [choices |-> ch, expected |-> ex]))

AdvanceWithError ==
    /\ status = "run" /\ calls < MaxCalls
    /\ \E ex \in ExpectedLists :
        LET q == advance_with_error(Parser, CurrentLeafKind, ex) IN
        CallStep(q, CallWith("advance_with_error", CurrentLeafKind, q,
                             [expected |-> ex]))

NextCalls ==
    \/ Eat
    \/ EatAny
    \/ EatStrNc
    \/ EatIf
    \/ Expect
    \/ ExpectStrNc
    \/ ExpectIf
    \/ ExpectAny
    \/ ExpectAnyStrNc
    \/ AdvanceWithError
    \/ Advance
    \/ AdvanceN

SpecCalls == InitCalls /\ [][NextCalls]_vars

(***************************************************************************)
(* impl Display for Error.  A rendered text is a sequence of pieces: the   *)
(* format string's literals and the token's name are one piece each, the   *)
(* span's numbers and the `expected` texts are character by character.     *)
(***************************************************************************)

\* <usize as Debug>::fmt for the one-digit offsets of the inputs
DebugUsize(n) == << "0", "1", "2", "3", "4", "5", "6", "7", "8", "9" >>[n + 1]

\* <Range<usize> as Debug>::fmt: start, "..", end
DebugSpan(lx) == << DebugUsize(lx.start), "..", DebugUsize(lx.end) >>

\* String::pop: removes the last character, if there is one
StringPop(out) == IF out = << >> THEN out ELSE SubSeq(out, 1, Len(out) - 1)

\* for e in self.expected { out.push_str(e); out.push('/'); } from e = i on
RECURSIVE PushAllFrom(_, _, _)
PushAllFrom(out, expected, i) ==
    IF i > Len(expected) THEN out
    ELSE PushAllFrom(Append(out \o expected[i], "/"), expected, i + 1)

\* Display::fmt without the out.pop() after the loop.
fmt_no_pop(err) ==
    << "found ", err.found.kind, " at " >> \o DebugSpan(err.found)
        \o << " - expected one of the following: " >>
        \o PushAllFrom(<< >>, err.expected, 1)

\* fn fmt(&self, f) of impl Display for Error: the text written to f
fmt(err) ==
    << "found ", err.found.kind, " at " >> \o DebugSpan(err.found)
        \o << " - expected one of the following: " >>
        \o StringPop(PushAllFrom(<< >>, err.expected, 1))

(***************************************************************************)
(* SpecKeyword: a driver that tests for keywords with at_str_nc() at every *)
(* cursor position, between advance() and advance_n() calls.               *)
(***************************************************************************)

InitKeyword ==
    /\ \E i \in 1..Len(Inputs) : New(i)
    /\ plan = 0
    /\ pc = "loop"

\* The `token` and `string` arguments the driver passes.
KeywordTokens == {"Ident", "Semi", EOF}
KeywordTexts == {<< "X" >>, << "x" >>, << "A", "b" >>, << ";" >>, << >>}

AtStrNcOf ==
    /\ status = "run"
    /\ \E tok \in KeywordTokens, str \in KeywordTexts :
        LET q == at_str_nc(Parser, tok, str) IN
        /\ Becomes(q)
        /\ last' = [Call("at_str_nc", 0, 0, "", tok, q) EXCEPT
                       !.args = [tok |-> tok, str |-> str]]
    /\ UNCHANGED << openMarks, closeMarks, closes, cancels, calls, looks, plan, pc >>

NextKeyword ==
    \/ AtStrNcOf
    \/ Advance
    \/ AdvanceN

SpecKeyword == InitKeyword /\ [][NextKeyword]_vars

(***************************************************************************)
(* SpecDisplay: a driver that raises errors with expect(), with `expected` *)
(* lists of every shape, and renders the errors raised so far.             *)
(***************************************************************************)

InitDisplay ==
    /\ \E i \in 1..Len(Inputs) : New(i)
    /\ plan = 0
    /\ pc = "loop"

\* The `expected` lists the driver passes, each alternative a text.
DisplayLists ==
    { << >>,
      << << "a" >> >>,
      << << >> >>,
      << << "a" >>, << "b", "c" >> >>,
      << << "a" >>, << >> >>,
      << << "/" >>, << "b" >>, << "c" >> >> }

ExpectOneOf ==
    /\ status = "run" /\ calls < MaxCalls
    /\ \E tok \in EatTokens, ex \in DisplayLists :
        LET q == expect(Parser, tok, SynFor(tok), ex) IN
        CallStep(q, CallWith("expect", SynFor(tok), q,
                             [tok |-> tok, expected |-> ex]))

\* format!("{}", self.errors[i]): `last` keeps the Error and its text.
Display ==
    /\ status = "run"
    /\ \E i \in 1..Len(errors) :
        last' = [Call("fmt", 0, i, "", "", Parser) EXCEPT
                    !.args = [err |-> errors[i], text |-> fmt(errors[i])]]
    /\ UNCHANGED << source, tokens, pos, fuel, events, errors, status, panicMsg,
                    tree, outErrors, openMarks, closeMarks, opens, closes,
                    cancels, looks, plan, pc, calls >>

NextDisplay ==
    \/ ExpectOneOf
    \/ Display
    \/ Advance

SpecDisplay == InitDisplay /\ [][NextDisplay]_vars

(***************************************************************************)
(* SpecChoice: a driver that calls eat_any() and expect_any() with choice  *)
(* lists in which several choices name the same token, after any number of *)
(* at() calls (each takes one unit of fuel), between advance() calls.      *)
(***************************************************************************)

InitChoice ==
    /\ \E i \in LookInputs : New(i)
    /\ plan = FUEL
    /\ pc = "loop"

\* The `choices` the driver passes.
OrderedChoices ==
    { << [tok |-> "Semi", kind |-> "Semi"], [tok |-> "Ident", kind |-> "Ident"],
         [tok |-> "Ident", kind |-> "Lit"] >>,
      << [tok |-> "Ident", kind |-> "Lit"], [tok |-> "Ident", kind |-> "Ident"] >>,
      << [tok |-> "Eq", kind |-> "Eq"], [tok |-> EOF, kind |-> ERR_NODE] >> }

ChoiceStep(q, call) ==
    /\ Becomes(q)
    /\ last' = call
    /\ calls' = calls + 1
    /\ looks' = IF q.pos # pos THEN 0 ELSE looks
    /\ UNCHANGED << openMarks, closeMarks, closes, cancels, plan, pc >>

EatAnyOf ==
    /\ status = "run" /\ calls < MaxCalls
    /\ \E ch \in OrderedChoices :
        LET q == eat_any(Parser, ch) IN
        ChoiceStep(q, CallWith("eat_any", "", q, [choices |-> ch]))

ExpectAnyOf ==
    /\ status = "run" /\ calls < MaxCalls
    /\ \E ch \in OrderedChoices, ex \in ExpectedLists :
        LET q == expect_any(Parser, ch, ex) IN
        ChoiceStep(q, CallWith("expect_any", "", q,
                               [choices |-> ch, expected |-> ex]))

NextChoice ==
    \/ At
    \/ EatAnyOf
    \/ ExpectAnyOf
    \/ Advance

SpecChoice == InitChoice /\ [][NextChoice]_vars

(***************************************************************************)
(* SpecScenario: the toy grammar  Ident '=' IntLit ';'                     *)
(*     let root = p.open(); let assign = p.open();                         *)
(*     p.expect(Ident, ..); p.expect(Eq, ..); p.expect(IntLit, ..);        *)
(*     p.expect(Semi, ..);                                                 *)
(*     p.close(assign, Assign); p.close(root, Root); p.finish()            *)
(* run over "x=1;" and the other inputs.  The grammar may look with at()   *)
(* before an expect().  `calls` counts the expects made.                   *)
(***************************************************************************)

ScenarioInputs == << InputA >> \o Inputs

\* The four expect() calls of the production: token and `expected` list.
AssignItems ==
    << [tok |-> "Ident", expected |-> << "identifier" >>],
       [tok |-> "Eq", expected |-> << "=" >>],
       [tok |-> "IntLit", expected |-> << "integer literal" >>],
       [tok |-> "Semi", expected |-> << ";" >>] >>

InitScenario ==
    /\ \E i \in 1..Len(ScenarioInputs) : NewOver(ScenarioInputs[i])
    /\ plan = 0
    /\ pc = "root"

ScenarioStep(q, call, next) ==
    /\ Becomes(q)
    /\ last' = call
    /\ pc' = IF q.panic = "" THEN next ELSE "panicked"
    /\ UNCHANGED << closeMarks, closes, cancels, plan >>

\* let root = p.open();
ScenarioOpenRoot ==
    /\ status = "run" /\ pc = "root"
    /\ LET q == open(Parser) IN
        /\ ScenarioStep(q, Call("open", 0, 0, "", "", q), "assign")
        /\ openMarks' = openMarks \cup {[idx |-> q.ret, id |-> q.opens]}
    /\ UNCHANGED << calls, looks >>

\* let assign = p.open();
ScenarioOpenAssign ==
    /\ status = "run" /\ pc = "assign"
    /\ LET q == open(Parser) IN
        /\ ScenarioStep(q, Call("open", 0, 0, "", "", q), "items")
        /\ openMarks' = openMarks \cup {[idx |-> q.ret, id |-> q.opens]}
    /\ UNCHANGED << calls, looks >>

\* p.at(token) ahead of the next expect()
ScenarioPeek ==
    /\ status = "run" /\ pc = "items" /\ looks < MaxPeek
    /\ LET item == AssignItems[calls + 1]
           q == at(Parser, item.tok)
       IN  ScenarioStep(q, Call("at", 0, 0, "", item.tok, q), "items")
    /\ looks' = looks + 1
    /\ UNCHANGED << openMarks, calls >>

\* p.expect(token, kind, expected)
ScenarioExpect ==
    /\ status = "run" /\ pc = "items"
    /\ LET item == AssignItems[calls + 1]
           q == expect(Parser, item.tok, LeafKind(item.tok), item.expected)
       IN  ScenarioStep(q, CallWith("expect", LeafKind(item.tok), q,
                                    [tok |-> item.tok, expected |-> item.expected]),
                        IF calls + 1 = Len(AssignItems) THEN "closeAssign" ELSE "items")
    /\ calls' = calls + 1
    /\ looks' = 0
    /\ UNCHANGED openMarks

\* The mark the n-th open() of the run returned.
MarkOf(n) == CHOOSE m \in openMarks : m.id = n

\* p.close(assign, Assign);
ScenarioCloseAssign ==
    /\ status = "run" /\ pc = "closeAssign"
    /\ LET m == MarkOf(2)
           q == close(Parser, m.idx, "Assign")
       IN  /\ ScenarioStep(q, Call("close", m.idx, 0, "Assign", "", q), "closeRoot")
           /\ openMarks' = openMarks \ {m}
    /\ UNCHANGED << calls, looks >>

\* p.close(root, Root);
ScenarioCloseRoot ==
    /\ status = "run" /\ pc = "closeRoot"
    /\ LET m == MarkOf(1)
           q == close(Parser, m.idx, "Root")
       IN  /\ ScenarioStep(q, Call("close", m.idx, 0, "Root", "", q), "finish")
           /\ openMarks' = openMarks \ {m}
    /\ UNCHANGED << calls, looks >>

\* p.finish()
ScenarioFinish ==
    /\ status = "run" /\ pc = "finish"
    /\ LET r == finish(Parser) IN
        /\ status' = IF r.panic = "" THEN "done" ELSE "panic"
        /\ panicMsg' = r.panic
        /\ tree' = r.tree
        /\ outErrors' = r.errors
        /\ last' = Call("finish", 0, 0, "", "", Parser)
        /\ pc' = IF r.panic = "" THEN "done" ELSE "panicked"
    /\ UNCHANGED << source, tokens, pos, fuel, events, errors, openMarks,
                    closeMarks, opens, closes, cancels, calls, looks, plan >>

NextScenario ==
    \/ ScenarioOpenRoot
    \/ ScenarioOpenAssign
    \/ ScenarioPeek
    \/ ScenarioExpect
    \/ ScenarioCloseAssign
    \/ ScenarioCloseRoot
    \/ ScenarioFinish

SpecScenario == InitScenario /\ [][NextScenario]_vars

(***************************************************************************)
(* SpecRecover: the recovery loop                                          *)
(*     while !p.eof() { if !production(p) { p.advance_with_error(..) } }   *)
(* where the production either consumes something or does nothing: it is   *)
(* an eat() of some token, or it folds two lexemes with advance_n() after  *)
(* seeing that there are two.                                              *)
(***************************************************************************)

InitRecover ==
    /\ \E i \in 1..Len(Inputs) : New(i)
    /\ plan = 0
    /\ pc = "loop"

\* The tokens the toy productions look for.
ProductionTokens == {"Ident", "Eq", "Semi", "Ws"}

RecoverStep(q, call, next) ==
    /\ Becomes(q)
    /\ last' = call
    /\ pc' = IF q.panic = "" THEN next ELSE "panicked"
    /\ looks' = 0
    /\ UNCHANGED << openMarks, closeMarks, closes, cancels, calls, plan >>

\* while !p.eof()
RecoverLoop ==
    /\ status = "run" /\ pc = "loop"
    /\ RecoverStep(Parser, [Call("eof", 0, 0, "", "", Parser) EXCEPT !.rbool = eof(Parser)],
                   IF eof(Parser) THEN "done" ELSE "try")

\* production: p.eat(tok, kind)
RecoverEat ==
    /\ status = "run" /\ pc = "try"
    /\ \E tok \in ProductionTokens :
        LET q == eat(Parser, tok, LeafKind(tok)) IN
        RecoverStep(q, Call("eat", 0, 0, LeafKind(tok), tok, q),
                    IF q.rbool THEN "loop" ELSE "recover")

\* production: if p.nth(1) != EOF { p.advance_n(kind, 2) }
RecoverFold ==
    /\ status = "run" /\ pc = "try"
    /\ LET q1 == nth(Parser, 1)
           q == IF q1.panic = "" /\ q1.rtok # EOF THEN advance_n(q1, "Lit", 2) ELSE q1
       IN  RecoverStep(q, Call("fold", 0, 2, "Lit", "", q),
                       IF q1.rtok # EOF THEN "loop" ELSE "recover")

\* p.advance_with_error(kind, expected)
RecoverError ==
    /\ status = "run" /\ pc = "recover" /\ Len(errors) < MaxErrors
    /\ \E ex \in ExpectedLists :
        LET q == advance_with_error(Parser, CurrentLeafKind, ex) IN
        RecoverStep(q, Call("advance_with_error", 0, 1, CurrentLeafKind, "", q), "loop")

NextRecover ==
    \/ RecoverLoop
    \/ RecoverEat
    \/ RecoverFold
    \/ RecoverError

\* The loop is sequential code: it keeps running until it leaves the loop.
SpecRecover == InitRecover /\ [][NextRecover]_vars /\ WF_vars(NextRecover)

(***************************************************************************)
(* What the properties speak of: the shape of a log and of a tree          *)
(***************************************************************************)

\* The lexemes the log accounts for: 1 per Advance, n per AdvanceN(_, n).
RECURSIVE AccountedFrom(_, _)
AccountedFrom(evs, i) ==
    IF i > Len(evs) THEN 0
    ELSE (IF evs[i].type \in {"Advance", "AdvanceN"} THEN evs[i].n ELSE 0)
         + AccountedFrom(evs, i + 1)
Accounted(evs) == AccountedFrom(evs, 1)

\* The index of the Close that ends the nesting entered d levels before j
\* (0 when the log ends first).
RECURSIVE MatchFrom(_, _, _)
MatchFrom(evs, j, d) ==
    IF j > Len(evs) THEN 0
    ELSE IF evs[j].type = "Open" THEN MatchFrom(evs, j + 1, d + 1)
    ELSE IF evs[j].type = "Close"
         THEN (IF d = 1 THEN j ELSE MatchFrom(evs, j + 1, d - 1))
    ELSE MatchFrom(evs, j + 1, d)

\* The Close matching the Open at index i (0: i is no Open, or it is unclosed).
MatchClose(evs, i) ==
    IF i \in 1..Len(evs) /\ evs[i].type = "Open" THEN MatchFrom(evs, i + 1, 1) ELSE 0

\* Every event lies inside one node that is opened first and closed last.
OneBalancedRoot(evs) == Len(evs) >= 2 /\ MatchClose(evs, 1) = Len(evs)

\* Opens minus Closes among the first i events.
RECURSIVE Depth(_, _)
Depth(evs, i) ==
    IF i = 0 THEN 0
    ELSE Depth(evs, i - 1) + (IF evs[i].type = "Open" THEN 1
                              ELSE IF evs[i].type = "Close" THEN -1 ELSE 0)

\* Replay never pops an empty stack and ends with an Open still on it.
UnclosedOpen(evs) ==
    /\ \A i \in 0..Len(evs) : Depth(evs, i) >= 0
    /\ Depth(evs, Len(evs)) > 0

\* The last index of the element (leaf or subtree) that starts at i; a node
\* that is still open runs to the end of the log.
EndOf(evs, i) ==
    IF evs[i].type = "Open"
    THEN (IF MatchClose(evs, i) = 0 THEN Len(evs) ELSE MatchClose(evs, i))
    ELSE i

\* The start indices of the sibling elements from index j on, up to the Close
\* of their parent.
RECURSIVE ChildrenFrom(_, _)
ChildrenFrom(evs, j) ==
    IF j > Len(evs) \/ j < 1 THEN << >>
    ELSE IF evs[j].type = "Close" THEN << >>
    ELSE << j >> \o ChildrenFrom(evs, EndOf(evs, j) + 1)

\* The Open of the innermost node around index i (0 at the top level).
ParentOf(evs, i) ==
    LET around == {q \in 1..(i - 1) : evs[q].type = "Open"
                      /\ (MatchClose(evs, q) = 0 \/ MatchClose(evs, q) > i)}
    IN  IF around = {} THEN 0 ELSE CHOOSE q \in around : \A r \in around : r <= q

\* How many siblings precede the element at i in its parent.
Rank(evs, i) ==
    Cardinality({j \in 1..(i - 1) :
        \E c \in 1..Len(ChildrenFrom(evs, ParentOf(evs, i) + 1)) :
            ChildrenFrom(evs, ParentOf(evs, i) + 1)[c] = j})

\* The events of the element that starts at i.
SubtreeAt(evs, i) == SubSeq(evs, i, EndOf(evs, i))

\* The log without the events at indices i and j.
Without(evs, i, j) == [k \in 1..(Len(evs) - 2) |->
    IF k < i THEN evs[k] ELSE IF k + 1 < j THEN evs[k + 1] ELSE evs[k + 2]]

\* The lexeme spans tile the text: no gap, no overlap, nothing left over.
Tiles(toks, src) ==
    /\ (Len(toks) = 0 => Len(src) = 0)
    /\ (Len(toks) > 0 => toks[1].start = 0 /\ toks[Len(toks)].end = Len(src))
    /\ \A i \in 1..(Len(toks) - 1) : toks[i].end = toks[i + 1].start

\* The leaves of a tree in order, and the concatenation of their texts.
RECURSIVE Leaves(_)
RECURSIVE LeavesOf(_, _)
Leaves(el) == IF el.leaf THEN << el >> ELSE LeavesOf(el.kids, 1)
LeavesOf(kids, i) ==
    IF i > Len(kids) THEN << >> ELSE Leaves(kids[i]) \o LeavesOf(kids, i + 1)

RECURSIVE TextOf(_, _)
TextOf(ls, i) == IF i > Len(ls) THEN << >> ELSE ls[i].text \o TextOf(ls, i + 1)
TreeText(el) == TextOf(Leaves(el), 1)

(***************************************************************************)
(* Properties of finish()                                                  *)
(***************************************************************************)

\* finish() was the last call.
Finished == last.op = "finish"

\* The driver consumed every lexeme with advance/advance_n and put all of it
\* inside one balanced root node.
ConsumedAllInOneRoot ==
    /\ pos = Len(tokens)
    /\ Accounted(events) = Len(tokens)
    /\ OneBalancedRoot(events)

\* C1: round trip.  When the lexeme spans tile the text and the driver has
\* consumed every lexeme with advance/advance_n inside one balanced root
\* node, finish() returns a tree whose leaf texts, concatenated in order,
\* are the source text.
C1_RoundTrip ==
    (Finished /\ Tiles(tokens, source) /\ ConsumedAllInOneRoot)
        => (status = "done" /\ TreeText(tree) = source)

\* C2: replay of AdvanceN(kind, n).  Every leaf of the finished tree was
\* given exactly the n lexemes of its event (n = 1 for Advance), and its text
\* runs from the start of the first to the end of the n-th of them.
C2_ReplayPullsN ==
    status = "done" =>
        \A i \in 1..Len(Leaves(tree)) :
            LET l == Leaves(tree)[i] IN
            /\ l.cnt = l.evn
            /\ l.lo + l.evn <= Len(tokens)
            /\ l.text = Slice(source, tokens[l.lo + 1].start, tokens[l.lo + l.evn].end)

\* C3, the "if" half of exhaustive consumption: when the number of lexemes
\* the log accounts for (1 per Advance, n per AdvanceN) differs from the
\* length of the lexeme stream, finish() panics.
C3_PanicsIfCountDiffers ==
    (Finished /\ Accounted(events) # Len(tokens)) => status = "panic"

\* C4: balance, no false alarm.  When every Open is matched by its Close (the
\* log is one balanced root node) and the cursor has consumed the whole
\* stream, finish() does not panic.
C4_BalancedNeverPanics ==
    (Finished /\ ConsumedAllInOneRoot) => status = "done"

\* C5: balance, fail fast.  When an Open is still unclosed on the builder
\* stack at the end of the log, finish() panics.
C5_UnclosedPanics ==
    (Finished /\ UnclosedOpen(events)) => status = "panic"

\* C6: finish() panics when the log holds no Open event, the empty log of an
\* empty input included.
C6_NoOpenPanics ==
    (Finished /\ \A i \in 1..Len(events) : events[i].type # "Open")
        => status = "panic"

\* C6 happens: a log of advances only, over a consumed one-lexeme input, and
\* finish() has panicked on it.
C6_Witness ==
    /\ Finished /\ status = "panic"
    /\ Len(events) = 1 /\ events[1].type = "Advance" /\ pos = Len(tokens)

(***************************************************************************)
(* Wrapping: open_before(M) and, directly after it, close(M2, K)           *)
(***************************************************************************)

\* The last two calls were M2 = open_before(M) and close(M2, K), and in the
\* log before them M indexed the Open of a closed subtree.
Wrapped ==
    /\ status = "run" /\ last.op = "close" /\ last.wrap
    /\ MatchClose(last.wrapPre, last.wrapMark + 1) # 0

\* The new node: at M's index there is now an Open of kind K; the subtree
\* formerly at M starts right after it, unchanged; the new node has M's former
\* parent and M's former position in it; and the two new events taken out,
\* the log is the old log.
WrapInPlace(pre, m, post, k) ==
    /\ post[m].type = "Open" /\ post[m].kind = KindToRaw(k)
    /\ SubtreeAt(post, m + 1) = SubtreeAt(pre, m)
    /\ ParentOf(post, m) = ParentOf(pre, m)
    /\ Rank(post, m) = Rank(pre, m)
    /\ Without(post, m, Len(post)) = pre

\* C7 as claimed: the subtree formerly at M is the sole child of the new node
\* of kind K, which has M's former position in M's former parent; all other
\* events keep their order.
C7_WrapSoleChild ==
    Wrapped =>
        /\ WrapInPlace(last.wrapPre, last.wrapMark + 1, events, last.kind)
        /\ ChildrenFrom(events, last.wrapMark + 2) = << last.wrapMark + 2 >>

\* C7 as amended: the subtree formerly at M is the first child of the new node
\* of kind K, which has M's former position in M's former parent; the
\* siblings that followed M in that parent follow it inside the new node, so
\* it is the sole child exactly when M had no later sibling; all other events
\* keep their order.
C7_WrapFirstChild ==
    Wrapped =>
        LET pre == last.wrapPre
            m == last.wrapMark + 1
            later == ChildrenFrom(pre, MatchClose(pre, m) + 1)
        IN  /\ WrapInPlace(pre, m, events, last.kind)
            /\ ChildrenFrom(events, m + 1)
                   = << m + 1 >> \o [c \in 1..Len(later) |-> later[c] + 1]
            /\ (Len(ChildrenFrom(events, m + 1)) = 1) <=> (later = << >>)

\* C7 happens: a closed subtree that has a parent was wrapped.
C7_Witness ==
    /\ Wrapped
    /\ ParentOf(last.wrapPre, last.wrapMark + 1) # 0

(***************************************************************************)
(* Fuel                                                                    *)
(***************************************************************************)

\* A lookahead call has panicked.
Stalled == status = "panic" /\ last.op \in LookOps

\* C8: stall detection.  Counting from full fuel, each of the first 256
\* consecutive lookahead calls returns, and the 257th panics with the
\* diagnostic "parser is not advancing".
C8_StallAt257 ==
    /\ (last.op \in LookOps /\ looks <= FUEL) => status = "run"
    /\ (last.op \in LookOps /\ looks = FUEL + 1)
           => (status = "panic" /\ panicMsg = "parser is not advancing")

\* C9 as claimed: a driver that follows every run of lookahead calls by an
\* advance never panics from fuel exhaustion.
C9_NeverStalls == ~ Stalled

\* C9 as amended: a driver whose runs of lookahead calls are at most 256 long
\* never panics from fuel exhaustion, whatever the length of the input.
C9_ShortRunsNeverStall == Stalled => plan > FUEL

\* C9 happens: a run of 256 lookahead calls used up the fuel, the driver
\* advanced, and the whole input is consumed without a panic.
C9_Witness ==
    /\ status = "run" /\ last.op \in {"advance", "advance_n"}
    /\ last.pre.fuel = 0
    /\ pos = Len(tokens) /\ Len(tokens) = 3

(***************************************************************************)
(* Recovery                                                                *)
(***************************************************************************)

\* C10: recovery liveness.  The loop "while not eof: try a production, else
\* advance_with_error" ends, and it ends with the cursor at the end of the
\* lexeme stream.
C10_RecoveryTerminates == <>[](pc = "done" /\ pos = Len(tokens))

\* C10 happens: the loop has ended over a three-lexeme input after recovering
\* from an error.
C10_Witness ==
    /\ pc = "done" /\ pos = Len(tokens)
    /\ Len(tokens) = 3 /\ Len(errors) > 0

(***************************************************************************)
(* C11..C20                                                                *)
(***************************************************************************)

\* The lexeme raise() finds with the cursor at position c: tokens[c], or
\* the EOF lexeme spanning the end of the source at or past the end.
FoundAt(c) ==
    IF c < Len(tokens) THEN tokens[c + 1]
    ELSE Lexeme(EOF, Len(source), Len(source))

\* The events the last call appended to the log, if it only appended.
Appended == SubSeq(events, Len(last.pre.events) + 1, Len(events))
OnlyAppended ==
    /\ Len(events) >= Len(last.pre.events)
    /\ SubSeq(events, 1, Len(last.pre.events)) = last.pre.events

\* C11: advance_with_error(kind, expected), called with a lexeme left at the
\* cursor, moves the cursor by exactly one, appends exactly one Error whose
\* found lexeme is the lexeme it consumes, and appends to the log exactly
\* an Open of the error kind, one Advance of `kind` and a Close.
C11_AdvanceWithErrorEffect ==
    (last.op = "advance_with_error" /\ last.pre.pos < Len(tokens)) =>
        /\ status = "run"
        /\ pos = last.pre.pos + 1
        /\ errors = Append(last.pre.errors,
                           [expected |-> last.args.expected,
                            found |-> tokens[last.pre.pos + 1]])
        /\ OnlyAppended
        /\ Len(Appended) = 3
        /\ Appended[1].type = "Open" /\ Appended[1].kind = KindToRaw(ERR_NODE)
        /\ Appended[2].type = "Advance" /\ Appended[2].kind = KindToRaw(last.kind)
        /\ Appended[3].type = "Close"

C11_Witness ==
    /\ last.op = "advance_with_error" /\ status = "run"
    /\ last.pre.pos >= 1 /\ last.pre.pos < Len(tokens)
    /\ Len(last.pre.errors) >= 1

\* An element of the tree without the bookkeeping of the replay: kind, text
\* and children only.
RECURSIVE Bare(_)
Bare(el) ==
    [leaf |-> el.leaf, kind |-> el.kind, text |-> el.text,
     kids |-> [i \in 1..Len(el.kids) |-> Bare(el.kids[i])]]
BareLeaf(k, text) ==
    [leaf |-> TRUE, kind |-> KindToRaw(k), text |-> text, kids |-> << >>]
BareNode(k, kids) ==
    [leaf |-> FALSE, kind |-> KindToRaw(k), text |-> << >>, kids |-> kids]

\* The toy grammar ran to the end over this input.
RanOver(inp) == source = inp.src /\ tokens = inp.toks /\ pc \in {"done", "panicked"}

\* C12 (Scenario A): the toy grammar (open Root, open Assign, four expects,
\* close Assign, close Root, finish) over "x=1;" never panics and yields the
\* tree Root[Assign[Ident "x", Eq "=", IntLit "1", Semi ";"]] and no errors.
C12_ScenarioA ==
    /\ (source = InputA.src /\ tokens = InputA.toks) => status # "panic"
    /\ RanOver(InputA) =>
        /\ status = "done"
        /\ outErrors = << >>
        /\ Bare(tree) =
             BareNode("Root", <<
               BareNode("Assign", <<
                 BareLeaf("Ident", << "x" >>), BareLeaf("Eq", << "=" >>),
                 BareLeaf("IntLit", << "1" >>), BareLeaf("Semi", << ";" >>) >>) >>)

C12_Witness == RanOver(InputA) /\ status = "done" /\ calls = Len(AssignItems)

\* The input "x=;" (Ident, Eq, Semi).
InputB == Inputs[3]

\* The one Error of Scenario B.
ErrorB ==
    [expected |-> << "integer literal" >>, found |-> Lexeme("Semi", 2, 3)]

\* C13 as stated (Scenario B): over "x=;" the toy grammar yields exactly
\* one Error (expected "integer literal", found the Semi lexeme of ";"), an
\* error-kind node where the operand is missing, and the ";" as a Semi leaf
\* after it; finish() succeeds.
C13_ErrorNodeAtOperand ==
    RanOver(InputB) =>
        /\ status = "done"
        /\ outErrors = << ErrorB >>
        /\ Len(tree.kids) = 1 /\ Len(tree.kids[1].kids) = 4
        /\ ~ tree.kids[1].kids[3].leaf
        /\ tree.kids[1].kids[3].kind = KindToRaw(ERR_NODE)
        /\ Bare(tree.kids[1].kids[4]) = BareLeaf("Semi", << ";" >>)

\* C13 (amended): over "x=;" the toy grammar never panics and yields exactly
\* one Error (expected "integer literal", found the Semi lexeme of ";") and
\* the tree Root[Assign[Ident "x", Eq "=", Semi ";"]]: the ";" is a Semi
\* leaf, finish() succeeds, and there is no error-kind node.
C13_ScenarioB ==
    /\ (source = InputB.src /\ tokens = InputB.toks) => status # "panic"
    /\ RanOver(InputB) =>
        /\ status = "done"
        /\ outErrors = << ErrorB >>
        /\ Bare(tree) =
             BareNode("Root", <<
               BareNode("Assign", <<
                 BareLeaf("Ident", << "x" >>), BareLeaf("Eq", << "=" >>),
                 BareLeaf("Semi", << ";" >>) >>) >>)

C13_Witness == RanOver(InputB) /\ status = "done" /\ Len(outErrors) = 1

EatOps == {"eat", "eat_any", "eat_str_nc", "eat_if"}
ExpectOps == {"expect", "expect_any", "expect_str_nc", "expect_if", "expect_any_str_nc"}

\* The parser as it was before the last call.
PreParser ==
    [Parser EXCEPT !.pos = last.pre.pos, !.fuel = last.pre.fuel,
                   !.events = last.pre.events, !.errors = last.pre.errors]

\* The text of the lexeme raise() would find at cursor position c.
TextAt(c) == Slice(source, FoundAt(c).start, FoundAt(c).end)

\* A (token, string) pair holds for the lexeme at cursor position c.
KeywordAt(c, tok, str) ==
    FoundAt(c).kind = tok /\ eq_ignore_ascii_case(TextAt(c), str)

\* The predicate of the last eat*/expect* call holds for the token that was
\* current (L::EOF at or past the end) when the call was made.
Matches ==
    LET c == last.pre.pos
        cur == FoundAt(c).kind
        a == last.args
    IN  CASE last.op \in {"eat", "expect"} -> cur = a.tok
          [] last.op \in {"eat_if", "expect_if"} -> Holds(a.pred, cur)
          [] last.op \in {"eat_any", "expect_any"} ->
                \E i \in 1..Len(a.choices) : a.choices[i].tok = cur
          [] last.op \in {"eat_str_nc", "expect_str_nc"} -> KeywordAt(c, a.tok, a.str)
          [] last.op = "expect_any_str_nc" ->
                \E i \in 1..Len(a.choices) :
                    KeywordAt(c, a.choices[i].tok, a.choices[i].str)
          [] OTHER -> FALSE

\* What the eat* that corresponds to the last expect* call does to the parser
\* as it was before the call (for expect_any_str_nc: eat_str_nc of the first
\* choice that holds).
EatLike ==
    LET a == last.args IN
    CASE last.op = "expect" -> eat(PreParser, a.tok, last.kind)
      [] last.op = "expect_if" -> eat_if(PreParser, a.pred, last.kind)
      [] last.op = "expect_str_nc" -> eat_str_nc(PreParser, a.tok, a.str, last.kind)
      [] last.op = "expect_any" -> eat_any(PreParser, a.choices)
      [] last.op = "expect_any_str_nc" ->
            LET i == CHOOSE j \in 1..Len(a.choices) :
                        /\ KeywordAt(last.pre.pos, a.choices[j].tok, a.choices[j].str)
                        /\ \A k \in 1..(j - 1) :
                             ~ KeywordAt(last.pre.pos, a.choices[k].tok, a.choices[k].str)
            IN  eat_str_nc(PreParser, a.choices[i].tok, a.choices[i].str,
                           a.choices[i].kind)

\* C14: an expect* call that does not match appends exactly one Error, with
\* the call's expected list and the current lexeme as found, and leaves the
\* cursor and the event log unchanged; one that matches records no Error
\* and leaves the parser exactly as the corresponding eat* does.
C14_ExpectRaisesOrEats ==
    last.op \in ExpectOps =>
        IF Matches
        THEN LET e == EatLike IN
             /\ errors = last.pre.errors
             /\ pos = e.pos /\ fuel = e.fuel /\ events = e.events
             /\ panicMsg = e.panic
             /\ e.panic = "" => e.rbool
        ELSE /\ status = "run"
             /\ errors = Append(last.pre.errors,
                                [expected |-> last.args.expected,
                                 found |-> FoundAt(last.pre.pos)])
             /\ pos = last.pre.pos
             /\ events = last.pre.events

C14_Witness ==
    /\ last.op = "expect_any" /\ status = "run" /\ Matches
    /\ pos = last.pre.pos + 1
    /\ Len(last.pre.errors) = 1 /\ errors = last.pre.errors

\* C15 as stated: every eat* call returns, and returns true iff its
\* predicate holds for the current token; after true the cursor has moved
\* by exactly one and exactly one Advance event was appended; after false
\* the cursor, the event log and the error list are unchanged.
C15_EatReturnsMatch ==
    last.op \in EatOps =>
        /\ status = "run"
        /\ last.rbool <=> Matches
        /\ last.rbool =>
              /\ pos = last.pre.pos + 1
              /\ OnlyAppended /\ Len(Appended) = 1
              /\ Appended[1].type = "Advance"
              /\ errors = last.pre.errors
        /\ ~ last.rbool =>
              /\ pos = last.pre.pos
              /\ events = last.pre.events
              /\ errors = last.pre.errors

\* The calls of which nothing but raise() changes the parser: a failed
\* expect_str_nc or expect_any_str_nc (at_str_nc uses no fuel).
OnlyRaised ==
    last.op \in {"expect_str_nc", "expect_any_str_nc"} /\ ~ Matches

\* C16: every Error a call raises has as found the lexeme at the cursor at
\* the time, or the EOF lexeme spanning the end of the source when the
\* cursor is at or past the end; raising leaves the cursor, the fuel and
\* the event log unchanged.
C16_RaiseFound ==
    /\ (status = "run" /\ Len(errors) > Len(last.pre.errors)) =>
          /\ errors = Append(last.pre.errors,
                             [expected |-> last.args.expected,
                              found |-> FoundAt(last.pre.pos)])
          /\ last.pre.pos >= Len(tokens) =>
                errors[Len(errors)].found = Lexeme(EOF, Len(source), Len(source))
    /\ OnlyRaised =>
          /\ Len(errors) = Len(last.pre.errors) + 1
          /\ pos = last.pre.pos /\ fuel = last.pre.fuel /\ events = last.pre.events

C16_Witness ==
    /\ OnlyRaised /\ pos > Len(tokens) /\ fuel < FUEL
    /\ errors[Len(errors)].found = Lexeme(EOF, Len(source), Len(source))

\* C17 as stated: advance() at EOF and advance_n(kind, n) with fewer than n
\* lexemes left panic at once, and the cursor is never past the end of the
\* lexeme stream.
C17_PastEndPanics ==
    /\ pos <= Len(tokens)
    /\ (last.op = "advance" /\ last.pre.pos >= Len(tokens)) => status = "panic"
    /\ (last.op = "advance_n" /\ last.pre.pos + last.n > Len(tokens)) =>
          status = "panic"

\* C18 as stated: in every state reached with advance() and advance_n(),
\* eof() is true exactly when every lexeme has been consumed.
C18_EofIffConsumed ==
    status = "run" => (eof(Parser) <=> pos >= Len(tokens))

\* C19 as stated, in its weakest form: a close(mark, kind) that returns
\* instead of panicking has overwritten an Open event, never an event of
\* another type.
C19_CloseOverwritesOpen ==
    (last.op = "close" /\ status = "run") =>
        last.pre.events[last.mark + 1].type = "Open"

\* C20: advance_n(kind, 0) panics, appends no event and leaves the cursor
\* where it was.
C20_AdvanceNZeroPanics ==
    (last.op = "advance_n" /\ last.n = 0) =>
        /\ status = "panic"
        /\ events = last.pre.events
        /\ pos = last.pre.pos

C20_Witness ==
    /\ last.op = "advance_n" /\ last.n = 0 /\ status = "panic"
    /\ pos >= 1 /\ pos < Len(tokens) /\ Len(events) >= 2

(***************************************************************************)
(* C21..C30                                                                *)
(***************************************************************************)

\* C21 as stated: every nth, at, at_any, at_if and at_str_nc call that
\* returns has taken one unit of fuel, and a driver that repeats one of
\* these tests without advancing completes at most FUEL of them before the
\* stall panic stops it.
C21_EveryLookaheadBurnsFuel ==
    /\ (last.op \in LookOps \cup {"at_str_nc"} /\ status = "run") =>
          fuel = last.pre.fuel - 1
    /\ (pc \in LookOps \cup {"at_str_nc"} /\ status = "run") => looks <= FUEL

\* C22: after every call that moved the cursor (advance, advance_n, an
\* eat*/expect* that consumed, advance_with_error) the fuel is FUEL,
\* whatever it was before the call.
C22_AdvanceResetsFuel ==
    (status = "run" /\ pos # last.pre.pos) => fuel = FUEL

C22_Witness ==
    /\ status = "run" /\ last.op = "eat_any" /\ last.rbool
    /\ pos = last.pre.pos + 1
    /\ last.pre.fuel < FUEL /\ fuel = FUEL

\* C23: nth(k), called with fuel left, returns the kind of the lexeme k
\* positions after the cursor, or EOF when cursor + k is at or beyond the
\* end of the stream, and changes nothing but the fuel (one unit less).
C23_NthReturnsKthAhead ==
    (last.op = "nth" /\ last.pre.fuel > 0) =>
        /\ status = "run"
        /\ last.rtok = IF last.pre.pos + last.n < Len(tokens)
                       THEN tokens[last.pre.pos + last.n + 1].kind
                       ELSE EOF
        /\ pos = last.pre.pos
        /\ events = last.pre.events
        /\ errors = last.pre.errors
        /\ fuel = last.pre.fuel - 1

C23_Witness ==
    /\ last.op = "nth" /\ status = "run" /\ last.n = 1 /\ pos >= 1
    /\ last.rtok # EOF /\ last.rtok # tokens[pos + 1].kind

\* The log before the last call with event mark (0-based) given kind k.
PreWithKind(mark, k) ==
    [i \in 1..Len(last.pre.events) |->
        IF i = mark + 1 THEN [last.pre.events[i] EXCEPT !.kind = KindToRaw(k)]
        ELSE last.pre.events[i]]

IsPrefix(a, b) == Len(a) <= Len(b) /\ SubSeq(b, 1, Len(a)) = a

\* C25: every step leaves the Errors raised so far in place and in order
\* (the list only grows at its end), and finish() returns the list as it
\* is: the Errors in the order in which they were raised.
C25_ErrorsAppendOnly ==
    [][/\ IsPrefix(errors, errors')
       /\ status' = "done" => outErrors' = errors']_vars

C25_Witness ==
    /\ status = "done" /\ Len(outErrors) = 2
    /\ outErrors[1] # outErrors[2]
    /\ outErrors[1].found.start < outErrors[2].found.start

\* The calls that consume lexemes.
ConsumingOps ==
    {"advance", "advance_n", "advance_with_error"} \cup EatOps \cup ExpectOps

\* C26: no step moves the cursor back, and a step that moves it is one of
\* advance, advance_n and the combinators built on them and moves it by
\* what the Advance/AdvanceN events it appended account for.
C26_CursorOnlyAdvances ==
    [][/\ pos' >= pos
       /\ pos' - pos = Accounted(events') - Accounted(events)
       /\ pos' # pos => last'.op \in ConsumingOps]_vars

C26_Witness ==
    /\ status = "run" /\ last.op = "expect_if" /\ last.rbool
    /\ pos = last.pre.pos + 1 /\ pos >= 2

\* Every prefix of the log has at least as many Opens as Closes.
WellNested(evs) == \A i \in 0..Len(evs) : Depth(evs, i) >= 0

\* Every event is inside the root: the log starts with an Open that is
\* still unclosed or is closed by the last event.
InsideRoot(evs) ==
    evs # << >> => /\ evs[1].type = "Open"
                   /\ MatchClose(evs, 1) \in {0, Len(evs)}

RECURSIVE KindsOfNodes(_)
KindsOfNodes(el) ==
    IF el.leaf THEN {}
    ELSE {el.kind} \cup UNION {KindsOfNodes(el.kids[i]) : i \in 1..Len(el.kids)}

\* C28 as stated: once the driver has closed (or cancelled) every mark it
\* was given, every node of the finished tree has a kind that was passed to
\* close(), never the placeholder kind that open() and open_before() write
\* (the driver closes with Root and Assign only).
C28_NodeKindsFromClose ==
    (status = "done" /\ openMarks = {}) => KindsOfNodes(tree) \subseteq {KindToRaw(k) : k \in NodeKinds}

\* The log without the event at index i.
RemoveAt(evs, i) ==
    [k \in 1..(Len(evs) - 1) |-> IF k < i THEN evs[k] ELSE evs[k + 1]]

\* C29 as stated: cancel(mark) on a mark the driver has neither closed nor
\* cancelled removes exactly the Open event that the open() returning the
\* mark appended, and nothing else: the log is the log without that Open.
C29_CancelRemovesItsOpen ==
    last.op = "cancel" =>
        /\ status = "run"
        /\ last.pre.events[last.mark + 1].type = "Open"
        /\ last.pre.events[last.mark + 1].g = last.args.id
        /\ events = RemoveAt(last.pre.events, last.mark + 1)

\* The kind of the first lexeme at index >= c (0-based) that satisfies
\* pred, or EOF when there is none.
FirstFrom(c, pred) ==
    LET hits == {i \in c..(Len(tokens) - 1) : Holds(pred, tokens[i + 1].kind)}
    IN  IF hits = {} THEN EOF
        ELSE tokens[(CHOOSE i \in hits : \A j \in hits : i <= j) + 1].kind

\* C30 as stated: next_filtered(p) returns the kind of the first lexeme at
\* index >= cursor that satisfies p, lookahead_filtered(p) that of the first
\* at index >= cursor + 1, each EOF when there is none; neither changes the
\* cursor, the fuel, the event log or the error list.
C30_FilteredScan ==
    last.op \in {"next_filtered", "lookahead_filtered"} =>
        /\ status = "run"
        /\ last.rtok = FirstFrom(IF last.op = "next_filtered" THEN last.pre.pos
                                 ELSE last.pre.pos + 1, last.args.pred)
        /\ pos = last.pre.pos /\ fuel = last.pre.fuel
        /\ events = last.pre.events /\ errors = last.pre.errors

(***************************************************************************)
(* C31..C38                                                                *)
(***************************************************************************)

\* Two characters are the same ASCII letter in either case, or the same
\* character.
SameIgnoringCase(a, b) ==
    \/ a = b
    \/ {a, b} \in {{"a", "A"}, {"b", "B"}, {"c", "C"}, {"x", "X"}}

\* The text t spells the keyword str, ASCII case ignored.
Spells(t, str) ==
    /\ Len(t) = Len(str)
    /\ \A i \in 1..Len(t) : SameIgnoringCase(t[i], str[i])

\* C31: at_str_nc(tok, text) returns, and returns true exactly when the
\* current lexeme's kind is tok and its source slice is text ignoring ASCII
\* case; it is false when only the kind or only the spelling matches.  It
\* changes nothing of the parser.
C31_AtStrNcKindAndText ==
    last.op = "at_str_nc" =>
        /\ status = "run"
        /\ last.rbool <=>
              /\ FoundAt(pos).kind = last.args.tok
              /\ Spells(TextAt(pos), last.args.str)
        /\ pos = last.pre.pos /\ fuel = last.pre.fuel
        /\ events = last.pre.events /\ errors = last.pre.errors

\* at_str_nc(Semi, "X") with the cursor on the identifier x: the spelling
\* matches in the other case, the kind does not, the answer is false.
C31_Witness ==
    /\ last.op = "at_str_nc" /\ status = "run" /\ ~ last.rbool
    /\ pos < Len(tokens)
    /\ FoundAt(pos).kind = "Ident" /\ last.args.tok = "Semi"
    /\ TextAt(pos) = << "x" >> /\ last.args.str = << "X" >>

\* The texts of alts from the i-th on, with one "/" between neighbours.
RECURSIVE JoinFrom(_, _)
JoinFrom(alts, i) ==
    IF i > Len(alts) THEN << >>
    ELSE IF i = Len(alts) THEN alts[i]
    ELSE alts[i] \o << "/" >> \o JoinFrom(alts, i + 1)

\* C32: an Error renders as "found <token> at <byte-range> - expected one
\* of the following: " followed by the expected alternatives in their
\* given order joined by "/", with no separator after the last one, for
\* every expected list, the one-element and the empty list included.
C32_DisplayJoinsExpected ==
    last.op = "fmt" =>
        LET e == last.args.err IN
        last.args.text =
            << "found ", e.found.kind, " at ",
               DebugUsize(e.found.start), "..", DebugUsize(e.found.end),
               " - expected one of the following: " >>
            \o JoinFrom(e.expected, 1)

\* Rendering the second error of a run, raised at the identifier ab with
\* the alternatives a and bc.
C32_Witness ==
    /\ last.op = "fmt" /\ last.n = 2
    /\ last.args.err.expected = << << "a" >>, << "b", "c" >> >>
    /\ last.args.err.found = Lexeme("Ident", 0, 2)
    /\ last.args.text =
          << "found ", "Ident", " at ", "0", "..", "2",
             " - expected one of the following: ", "a", "/", "b", "c" >>

\* C33 as stated: replay binds lexemes as emission did.  Every leaf of the
\* finished tree holds exactly the lexemes that were at the cursor when its
\* advance()/advance_n() call was made: the first lexeme of leaf i is the
\* one the cursor was on, it has as many lexemes as its event counts, and
\* the leaves follow one another in stream order with no lexeme skipped or
\* used twice.
C33_ReplayBindsAsEmitted ==
    status = "done" =>
        LET ls == Leaves(tree) IN
        /\ \A i \in 1..Len(ls) :
              /\ ls[i].lo = ls[i].evg
              /\ ls[i].cnt = ls[i].evn
        /\ \A i \in 1..(Len(ls) - 1) : ls[i + 1].lo = ls[i].lo + ls[i].cnt
        /\ Len(ls) > 0 => (ls[1].lo = 0 /\ ls[Len(ls)].lo + ls[Len(ls)].cnt = Len(tokens))

\* The mark m indexes the Open event made by the open()/open_before() call
\* that m stems from.
IndexesOwnOpen(m) ==
    /\ m.idx < Len(events)
    /\ events[m.idx + 1].type = "Open"
    /\ events[m.idx + 1].g = m.id

\* C34 as stated: mark validity.  While the parser runs, every OpenMark
\* that was neither closed nor cancelled indexes its own Open event in the
\* log, and every CloseMark indexes the Open event of the subtree it was
\* returned for.
C34_MarksStayValid ==
    status = "run" =>
        /\ \A m \in openMarks : IndexesOwnOpen(m)
        /\ \A m \in closeMarks : IndexesOwnOpen(m)

\* The Advance and AdvanceN events of a log, in log order.
AdvancesOf(evs) == SelectSeq(evs, LAMBDA ev : ev.type \in {"Advance", "AdvanceN"})

\* C35 as stated: while the parser runs, the cursor equals the number of
\* lexemes the event log accounts for (1 per Advance, n per AdvanceN), and
\* open, close, open_before and cancel leave the Advance and AdvanceN events
\* of the log as they were.
C35_CursorIsAccounted ==
    status = "run" =>
        /\ pos = Accounted(events)
        /\ last.op \in {"open", "close", "open_before", "cancel"} =>
              AdvancesOf(events) = AdvancesOf(last.pre.events)

\* C36 as stated: with the cursor at EOF no eat* or expect* call panics,
\* whatever its token argument: every eat* returns false and leaves the
\* cursor, the event log and the error list unchanged, and every expect*
\* records exactly one Error whose found is the synthetic EOF lexeme and
\* leaves the cursor and the event log unchanged.
C36_AtEofNothingPanics ==
    (last.op \in EatOps \cup ExpectOps /\ last.pre.pos = Len(tokens)) =>
        /\ status = "run"
        /\ pos = last.pre.pos
        /\ events = last.pre.events
        /\ last.op \in EatOps => (~ last.rbool /\ errors = last.pre.errors)
        /\ last.op \in ExpectOps =>
              errors = Append(last.pre.errors,
                              [expected |-> last.args.expected,
                               found |-> Lexeme(EOF, Len(source), Len(source))])

\* The first choice (1-based) of the last eat_any/expect_any call that names
\* the token current when the call was made; 0 when no choice names it.
FirstChoice ==
    LET ch == last.args.choices
        cur == FoundAt(last.pre.pos).kind
        hits == {j \in 1..Len(ch) : ch[j].tok = cur}
    IN  IF hits = {} THEN 0 ELSE CHOOSE j \in hits : \A k \in hits : j <= k

\* The units of fuel the last eat_any/expect_any call takes: one per choice
\* tested, up to and including the first that names the current token.
ChoiceCost == IF FirstChoice = 0 THEN Len(last.args.choices) ELSE FirstChoice

\* C37: eat_any and expect_any test their choices in the given order.  A
\* call whose first matching choice is the j-th of the list (index j - 1)
\* takes j units of fuel and then does what advance() with the kind of that
\* choice does, whatever later choices name the same token; a call that
\* matches nothing takes one unit per choice, eat_any returning false and
\* expect_any raising one error.  A call that finds less fuel than it takes
\* ends in the stall panic.
C37_FirstChoiceWins ==
    last.op \in {"eat_any", "expect_any"} =>
        IF last.pre.fuel < ChoiceCost THEN status = "panic"
        ELSE IF FirstChoice = 0
        THEN /\ status = "run" /\ ~ last.rbool
             /\ fuel = last.pre.fuel - Len(last.args.choices)
             /\ pos = last.pre.pos /\ events = last.pre.events
             /\ Len(errors) = Len(last.pre.errors)
                    + (IF last.op = "expect_any" THEN 1 ELSE 0)
        ELSE LET a == advance([PreParser EXCEPT !.fuel = @ - ChoiceCost],
                              last.args.choices[FirstChoice].kind)
             IN  /\ panicMsg = a.panic
                 /\ pos = a.pos /\ events = a.events /\ fuel = a.fuel
                 /\ errors = last.pre.errors
                 /\ a.panic = "" => last.rbool

\* eat_any with Semi, Ident (kind Ident), Ident (kind Lit) on an identifier
\* with exactly two units of fuel left: the second choice wins.
C37_Witness ==
    /\ last.op = "eat_any" /\ status = "run" /\ last.rbool
    /\ Len(last.args.choices) = 3 /\ FirstChoice = 2
    /\ last.pre.fuel = 2
    /\ Appended = << EvAdvance(KindToRaw("Ident"), last.pre.pos) >>
    /\ fuel = FUEL

\* C38: the fuel counter is within 0..FUEL in every reachable state: nth()
\* decrements only after its zero check, and new(), advance() and
\* advance_n() set it to FUEL.
C38_FuelInRange ==
    fuel \in 0..FUEL

\* The lookahead that takes the last unit: fuel 1 before, 0 after, and the
\* call returned.
C38_Witness ==
    /\ last.op \in LookOps /\ status = "run"
    /\ last.pre.fuel = 1 /\ fuel = 0

====
